---- MODULE Spec2Model ----
(***************************************************************************)
(* A model of the grade-transcription program: the CSV loader              *)
(* (models/student.py), the sheet writer and column mapper                 *)
(* (repositories/excel_repository.py), the transfer service                *)
(* (services/transfer_service.py) and the coordinator                      *)
(* (services/task_runner.py).                                              *)
(*                                                                         *)
(* Text is modelled as a sequence of characters, so that str.strip() and   *)
(* str() are computed and not assumed.  The Japanese keywords of config.py *)
(* are written character by character with the reading of each character: *)
(* the two characters of the name keyword are <<"shi", "mei">>.            *)
(***************************************************************************)
EXTENDS Integers, Sequences, FiniteSets, TLC

VARIABLES
    \* ---- load_students_from_csv (models/student.py)
    csv,            \* the input file: [columns, lines]
    df,             \* the DataFrame read_csv produced: a sequence of rows
    index,          \* the 0-based DataFrame index of the next row of the loop
    students,       \* the list of Student objects built so far
    ld_pc,          \* "read" | "rows" | "returned" | "raised"
    ld_error,       \* the exception load_students_from_csv raised, or NoError
    \* ---- transfer_service.run and ExcelRepository.update_grades_sheet
    workbook,       \* self.workbook: sheet name -> worksheet (its cells)
    terms,          \* the list of terms handed to transfer_service.run
    term_i,         \* position in terms of the term being processed
    tr_pc,          \* "start" | "term" | "loop" | "done"
    subject_column_map,     \* (subject, test type) -> column
    other_column_map,       \* aggregate field -> column
    student_row_map,        \* str(ID) -> row
    next_new_student_row,   \* the append cursor
    stu_i,          \* position in students of the next record of the loop
    status,         \* the messages handed to status_callback, in order
    targets,        \* history: the target row of each record of this call
    ws_before,      \* history: the worksheet when this call began
    calls,          \* history: the completed calls of update_grades_sheet
    \* ---- ExcelRepository._get_merged_cell_value on one header row
    hd_ws,          \* a worksheet holding the header row
    resolved,       \* the value resolved at each column queried so far
    \* ---- task_runner.run_all_tasks
    tasks,          \* the task flags: [transfer, grades, attendance]
    files,          \* (csv_path, excel_path)
    run_pc,         \* the step run_all_tasks is about to execute
    trace,          \* history: the steps executed, each with cause and outcome
    result,         \* the pair run_all_tasks returned, or NoResult
    progress,       \* the values handed to progress_callback, in order
    mem_written,    \* the tasks that changed the in-memory workbook
    file_written,   \* the tasks whose changes are in the Excel file
    \* ---- summary_service.create_grade_summary, create_attendance_summary
    original_columns,   \* the column labels the loader returned, in order
    merged_cells,   \* sheet name -> the merged ranges of the worksheet
    builds,         \* history: the builder calls made, each with what it saw
    \* ---- AppViewModel.start_processing and _run_in_thread
    is_running,     \* self.is_running
    view,           \* the paths and the flags the user edits
    ui_pc,          \* the UI thread: "idle" | "set_running" | "start_thread"
    ui_args,        \* the arguments start_processing built for the thread
    threads,        \* the worker threads started, each with its position
    clicks          \* history: the invocations of start_processing

loadVars == <<csv, df, index, ld_pc, ld_error>>

sheetVars ==
    <<workbook, terms, term_i, tr_pc, subject_column_map, other_column_map,
      student_row_map, next_new_student_row, stu_i, targets, ws_before, calls>>

hdrVars == <<hd_ws, resolved>>

runVars ==
    <<tasks, files, run_pc, trace, result, progress, mem_written, file_written>>

sumVars == <<original_columns, merged_cells, builds>>

viewVars == <<is_running, view, ui_pc, ui_args, threads, clicks>>

vars ==
    <<loadVars, students, status, sheetVars, hdrVars, runVars, sumVars,
      viewVars>>

\* What the actions of each part leave alone.
notLoad ==
    <<status, sheetVars, hdrVars, runVars, sumVars, viewVars>>
notSheet ==
    <<loadVars, hdrVars, runVars, sumVars, viewVars>>
notHdr ==
    <<loadVars, students, status, sheetVars, runVars, sumVars, viewVars>>
notRun ==
    <<loadVars, students, sheetVars, hdrVars, sumVars, viewVars>>
notSum ==
    <<loadVars, students, terms, term_i, tr_pc, subject_column_map,
      other_column_map, student_row_map, next_new_student_row, stu_i, targets,
      ws_before, calls, hdrVars, runVars, viewVars>>
notView == <<loadVars, students, status, sheetVars, hdrVars, runVars, sumVars>>

(***************************************************************************)
(* Bounds of the model.                                                    *)
(***************************************************************************)
MaxCsvLines == 3        \* physical lines after the second header line

(***************************************************************************)
(* Python and pandas values.                                               *)
(***************************************************************************)
Range(f) == {f[i] : i \in DOMAIN f}

\* A str value, the float NaN pandas uses for a missing cell, and None.
Str(t) == [k |-> "str", s |-> t]
NaN == [k |-> "nan", s |-> <<>>]
None == [k |-> "none", s |-> <<>>]

\* An int and a float with an integral value (80 and 80.0).
IntVal(n) == [k |-> "int", s |-> n]
FloatVal(n) == [k |-> "float", s |-> n]

Digits == <<"0", "1", "2", "3", "4", "5", "6", "7", "8", "9">>

\* A text read_csv parses as an integer, and the integer.
IsNumeric(t) == t # <<>> /\ \A i \in DOMAIN t : t[i] \in Range(Digits)

RECURSIVE ToInt(_)
ToInt(t) ==
    IF t = <<>> THEN 0
    ELSE 10 * ToInt(SubSeq(t, 1, Len(t) - 1))
            + (CHOOSE d \in 0..9 : Digits[d + 1] = t[Len(t)])

\* pd.isna(v)
PdIsNa(v) == v.k \in {"nan", "none"}

\* str(v) of a cell value: str(float('nan')) is the text nan.
PyStr(v) ==
    CASE v.k = "nan" -> <<"n", "a", "n">>
      [] v.k = "none" -> <<"N", "o", "n", "e">>
      [] OTHER -> v.s

IsSpace(c) == c \in {" ", "\t"}

RECURSIVE LStrip(_)
LStrip(t) == IF t # <<>> /\ IsSpace(Head(t)) THEN LStrip(Tail(t)) ELSE t

RECURSIVE RStripText(_)
RStripText(t) ==
    IF t # <<>> /\ IsSpace(t[Len(t)])
    THEN RStripText(SubSeq(t, 1, Len(t) - 1))
    ELSE t

\* str.strip()
Strip(t) == RStripText(LStrip(t))

(***************************************************************************)
(* config.py                                                               *)
(***************************************************************************)
KEY_STUDENT_NAME == <<"shi", "mei">>
KEY_TEST_TYPES == << <<"hon", "shi">>, <<"sai", "shi">>, <<"hyo">> >>
KEY_GRADE == <<"hyo">>
\* The keys of the dict KEY_ATTENDANCE.
KEY_ATTENDANCE == {<<"ketsu">>, <<"chi">>, <<"so">>}
KEY_OTHER_COLS ==
    {<<"bi", "kou">>, <<"ka", "moku", "suu">>, <<"sou", "ten">>,
     <<"hei", "kin", "ten">>, <<"kek", "ka", "gou", "kei">>,
     <<"jun", "i">>, <<"sai", "shi", "suu">>}

(***************************************************************************)
(* The CSV file.  Its line 1 is the first header line, lines 2 and 3 are   *)
(* skipped (skiprows=[1, 2]), line 4 is the second header line and the     *)
(* lines from 5 on are csv.lines.  A line is blank (no field at all) or a  *)
(* row: the text of one cell per column and, in bad, whether processing    *)
(* the row raises after the ID check (an allocation failure, a lookup      *)
(* error).                                                                 *)
(***************************************************************************)
Col(a, b) == <<a, b>>

\* read_csv names an empty second-level header cell "Unnamed: i_level_1".
Unnamed0 == <<"Unnamed: 0_level_1">>

ColumnsA ==
    << Col(<<"ID">>, Unnamed0), Col(<<"NAME">>, KEY_STUDENT_NAME),
       Col(<<"Math">>, <<"hon", "shi">>), Col(<<"Math">>, <<"hyo">>) >>

ColumnsNoName ==
    << Col(<<"ID">>, Unnamed0), Col(<<"NAME">>, <<"na", "mae">>),
       Col(<<"Math">>, <<"hon", "shi">>), Col(<<"Math">>, <<"hyo">>) >>

ColumnsMixed ==
    << Col(<<"ID">>, Unnamed0), Col(<<"NAME">>, KEY_STUDENT_NAME),
       Col(<<"Math">>, <<"ketsu">>), Col(<<"sou", "ten">>, <<"Unnamed: 3_level_1">>) >>

\* An aggregate-field name over a test type and over an attendance type.
ColumnsPrecedence ==
    << Col(<<"ID">>, Unnamed0), Col(<<"NAME">>, KEY_STUDENT_NAME),
       Col(<<"sou", "ten">>, <<"hon", "shi">>), Col(<<"sou", "ten">>, <<"ketsu">>) >>

\* The name keyword with a space before it.
ColumnsPadded ==
    << Col(<<"ID">>, Unnamed0), Col(<<"NAME">>, <<" ">> \o KEY_STUDENT_NAME),
       Col(<<"Math">>, <<"hon", "shi">>), Col(<<"Math">>, <<"hyo">>) >>

Headers == {ColumnsA, ColumnsNoName, ColumnsMixed, ColumnsPrecedence, ColumnsPadded}

BlankLine == [blank |-> TRUE, cells |-> <<>>, bad |-> FALSE]

Row(id, name, bad) ==
    [blank |-> FALSE, cells |-> <<id, name, <<"8", "0">>, <<"B">> >>, bad |-> bad]

\* The ID cells tried: empty, whitespace only, plain, padded.
IdTexts == {<<>>, <<" ">>, <<"S", "1">>, <<" ", "S", "2">>}

\* A row with no name and no score.
EmptyRow == [blank |-> FALSE, cells |-> <<<<"S", "1">>, <<>>, <<>>, <<"B">> >>,
             bad |-> FALSE]

Rows ==
    {Row(id, <<"Taro">>, bad) : id \in IdTexts, bad \in BOOLEAN} \cup {EmptyRow}

Lines == Rows \cup {BlankLine}

SeqsUpTo(S, n) == UNION {[1..m -> S] : m \in 0..n}

Faults == {"none", "encoding", "missing", "malformed"}

Files ==
    {[columns |-> h, lines |-> ls, fault |-> "none"] :
        h \in Headers, ls \in SeqsUpTo(Lines, MaxCsvLines)}
    \cup {[columns |-> ColumnsA, lines |-> <<>>, fault |-> f] :
        f \in Faults \ {"none"}}

(***************************************************************************)
(* pd.read_csv(csv_path, encoding="cp932", skiprows=[1, 2], header=[0, 1]) *)
(***************************************************************************)
skiprows == {1, 2}
header == <<0, 1>>

\* The 0-based physical line number of the n-th (0-based) line that
\* survives skiprows, counting from physical line p.
RECURSIVE KeptLine(_, _)
KeptLine(n, p) ==
    IF p \in skiprows THEN KeptLine(n, p + 1)
    ELSE IF n = 0 THEN p
    ELSE KeptLine(n - 1, p + 1)

\* The 1-based physical line number of csv.lines[p]: the data follows the
\* last header row.
FileLine(p) == KeptLine(header[Len(header)] + 1, 0) + p

\* The default na_values of read_csv that the model's cells can hold.
NaTexts == {<<>>}

\* The dtype read_csv infers for column c: int64 when every cell is an
\* integer, float64 when the others are missing, object otherwise.
ColumnKind(f, c) ==
    LET texts == {f.lines[p].cells[c] : p \in {q \in DOMAIN f.lines : ~f.lines[q].blank}}
    IN  IF \E t \in texts : t \notin NaTexts /\ ~IsNumeric(t) THEN "object"
        ELSE IF texts \cap NaTexts # {} THEN "float"
        ELSE "int"

ReadCell(kind, t) ==
    IF t \in NaTexts THEN NaN
    ELSE IF kind = "int" THEN IntVal(ToInt(t))
    ELSE IF kind = "float" THEN FloatVal(ToInt(t))
    ELSE Str(t)

\* skip_blank_lines=True: a blank line gets no DataFrame row, so that the
\* DataFrame index counts the non-blank lines only.  line is the physical
\* line the row came from (the program does not have it).
ReadCsv(f) ==
    LET nb == SelectSeq([p \in 1..Len(f.lines) |-> p],
                        LAMBDA p : ~f.lines[p].blank)
    IN  [j \in 1..Len(nb) |->
            [cells |-> [c \in DOMAIN f.lines[nb[j]].cells |->
                            ReadCell(ColumnKind(f, c), f.lines[nb[j]].cells[c])],
             bad |-> f.lines[nb[j]].bad,
             line |-> FileLine(nb[j])]]

(***************************************************************************)
(* load_students_from_csv                                                  *)
(***************************************************************************)
NoError == [kind |-> "none", what |-> "", line |-> 0]
Error(kind, what, line) == [kind |-> kind, what |-> what, line |-> line]

\* student_id_col_tuple = df.columns[0]
student_id_col == 1

\* A variant that takes the second column for the name column.
StudentNameColSecond(columns) == 2

\* next((c for c in df.columns if str(c[1]).strip() == KEY_STUDENT_NAME), None)
\* as a column position, 0 for None.
StudentNameCol(columns) ==
    LET hits == {c \in DOMAIN columns : Strip(columns[c][2]) = KEY_STUDENT_NAME}
    IN  IF hits = {} THEN 0 ELSE CHOOSE c \in hits : \A d \in hits : c <= d

\* The offset the row error adds to the DataFrame index.
RowNumberOffset == 4

\* if pd.isna(value): value = ''
Normalize(v) == IF PdIsNa(v) THEN Str(<<>>) ELSE v

\* The columns of a row that the loop over df.columns stores, by kind.
DataCols(columns) ==
    {c \in DOMAIN columns :
        /\ columns[c] # columns[student_id_col]
        /\ columns[c] # columns[StudentNameCol(columns)]}

ScoreCols(columns) ==
    {c \in DataCols(columns) : columns[c][2] \in Range(KEY_TEST_TYPES)}

AttendanceCols(columns) ==
    {c \in DataCols(columns) \ ScoreCols(columns) :
        columns[c][2] \in KEY_ATTENDANCE}

\* A variant that looks at the first-level label only.
OtherColsByFirstLabel(columns) ==
    {c \in DataCols(columns) : columns[c][1] \in KEY_OTHER_COLS}

OtherCols(columns) ==
    {c \in (DataCols(columns) \ ScoreCols(columns)) \ AttendanceCols(columns) :
        columns[c][1] \in KEY_OTHER_COLS}

\* A dict is filled in column order: the last column with a key sets it.
LastCol(cs) == CHOOSE c \in cs : \A e \in cs : e <= c

\* Student(student_id, student_name) with its three dicts filled.
MakeStudent(columns, row, student_id) ==
    LET name == row.cells[StudentNameCol(columns)]
        sc == ScoreCols(columns)
        ac == AttendanceCols(columns)
        oc == OtherCols(columns)
    IN  [id |-> student_id,
         name |-> IF PdIsNa(name) THEN <<>> ELSE PyStr(name),
         scores |->
            [k \in {columns[c] : c \in sc} |->
                Normalize(row.cells[LastCol({c \in sc : columns[c] = k})])],
         attendance |->
            [k \in {columns[c] : c \in ac} |->
                Normalize(row.cells[LastCol({c \in ac : columns[c] = k})])],
         summary_data |->
            [k \in {columns[c][1] : c \in oc} |->
                Normalize(row.cells[LastCol({c \in oc : columns[c][1] = k})])]]

\* if pd.isna(student_id) or not student_id.strip(): continue
\* student_id is already the str() of the cell.
SkipsRow(student_id) == PdIsNa(Str(student_id)) \/ Strip(student_id) = <<>>

\* A variant of the row loop that passes over a row it cannot process.
RowOutcomeLenient(row, student_id) ==
    IF SkipsRow(student_id) \/ row.bad THEN "continue" ELSE "append"

\* What one iteration of the row loop does with its row: `continue`, the
\* except clause that raises, or students.append(student).
RowOutcome(row, student_id) ==
    IF SkipsRow(student_id) THEN "continue"
    ELSE IF row.bad THEN "raise"
    ELSE "append"

\* What the caller of load_students_from_csv receives: nothing until the
\* function returns, nothing at all when it raises.
NoReturn == [returned |-> FALSE, students |-> <<>>, columns |-> <<>>]

LoadResult ==
    IF ld_pc = "returned"
    THEN [returned |-> TRUE, students |-> students, columns |-> csv.columns]
    ELSE NoReturn

\* Steps 1 to 3: read_csv, the header checks, the required columns.
LoadRead ==
    /\ ld_pc = "read"
    /\ IF csv.fault = "encoding"
       THEN /\ ld_error' = Error("ValueError", "encoding", 0)
            /\ ld_pc' = "raised"
            /\ UNCHANGED df
       ELSE IF csv.fault = "missing"
       THEN /\ ld_error' = Error("FileNotFoundError", "csv", 0)
            /\ ld_pc' = "raised"
            /\ UNCHANGED df
       ELSE IF csv.fault = "malformed"
       THEN /\ ld_error' = Error("ValueError", "read", 0)
            /\ ld_pc' = "raised"
            /\ UNCHANGED df
       ELSE IF Len(csv.columns) < 1
       THEN /\ ld_error' = Error("KeyError", "columns", 0)
            /\ ld_pc' = "raised"
            /\ UNCHANGED df
       ELSE IF StudentNameCol(csv.columns) = 0
       THEN /\ ld_error' = Error("KeyError", "name_column", 0)
            /\ ld_pc' = "raised"
            /\ UNCHANGED df
       ELSE /\ df' = ReadCsv(csv)
            /\ ld_pc' = "rows"
            /\ UNCHANGED ld_error
    /\ UNCHANGED <<csv, index, students, notLoad>>

\* One iteration of `for index, row in df.iterrows()`.
LoadRow ==
    /\ ld_pc = "rows"
    /\ index < Len(df)
    /\ LET row == df[index + 1]
           student_id == PyStr(row.cells[student_id_col])
       IN  IF RowOutcome(row, student_id) = "continue"
           THEN /\ index' = index + 1
                /\ UNCHANGED <<students, ld_pc, ld_error>>
           ELSE IF RowOutcome(row, student_id) = "raise"
           THEN /\ ld_error' = Error("ValueError", "row", index + RowNumberOffset)
                /\ ld_pc' = "raised"
                /\ UNCHANGED <<index, students>>
           ELSE /\ students' = Append(students, MakeStudent(csv.columns, row, student_id))
                /\ index' = index + 1
                /\ UNCHANGED <<ld_pc, ld_error>>
    /\ UNCHANGED <<csv, df, notLoad>>

\* return students, df.columns
LoadReturn ==
    /\ ld_pc = "rows"
    /\ index = Len(df)
    /\ ld_pc' = "returned"
    /\ UNCHANGED <<csv, df, index, students, ld_error, notLoad>>

LoadNext == LoadRead \/ LoadRow \/ LoadReturn

(***************************************************************************)
(* Worksheets.  A worksheet is its cells: a function from <<row, column>>  *)
(* to the cell's value; a cell that is not in the domain reads as None.    *)
(* A cell may exist with the value None (a formatted empty cell, or a cell *)
(* of a merged range other than its top-left one).                         *)
(***************************************************************************)
\* str(n) of a non-negative int
RECURSIVE IntStr(_)
IntStr(n) ==
    IF n < 10 THEN <<Digits[n + 1]>>
    ELSE IntStr(n \div 10) \o <<Digits[(n % 10) + 1]>>

\* str(cell.value)
ValueStr(v) == IF v.k = "int" THEN IntStr(v.s) ELSE PyStr(v)

\* `if cell.value`: None, the empty string and 0 are false.
Truthy(v) ==
    CASE v.k = "none" -> FALSE
      [] v.k = "int" -> v.s # 0
      [] OTHER -> v.s # <<>>

MaxOf(S, default) == IF S = {} THEN default ELSE CHOOSE x \in S : \A y \in S : y <= x

\* ws.max_row and ws.max_column: 1 for a worksheet without cells.
max_row(ws) == MaxOf({p[1] : p \in DOMAIN ws}, 1)
max_column(ws) == MaxOf({p[2] : p \in DOMAIN ws}, 1)

\* ws.cell(row=r, column=c).value
CellValue(ws, r, c) == IF <<r, c>> \in DOMAIN ws THEN ws[<<r, c>>] ELSE None

\* ws.cell(row=r, column=c, value=v): openpyxl leaves the cell as it is
\* when v is None.
SetCell(ws, r, c, v) ==
    IF v = None THEN ws
    ELSE [p \in DOMAIN ws \cup {<<r, c>>} |-> IF p = <<r, c>> THEN v ELSE ws[p]]

\* config.SHEET_NAME_GRADES_TEMPLATE.format(term=term)
SHEET_NAME_GRADES_TEMPLATE(term) ==
    <<"sei", "seki", "ichi", "ran", " ", "(">> \o term \o <<")">>

(***************************************************************************)
(* ExcelRepository._get_merged_cell_value, _map_subject_columns and        *)
(* _map_other_columns                                                      *)
(***************************************************************************)
\* A variant of the walk that starts from column 1.
WalkLeftFromStart(ws, row, c_idx) ==
    LET found == {d \in 1..c_idx : CellValue(ws, row, d) # None}
    IN  IF found = {} THEN None
        ELSE CellValue(ws, row, CHOOSE d \in found : \A e \in found : d <= e)

\* for c_idx in range(col - 1, 0, -1): the first value that is not None
RECURSIVE WalkLeft(_, _, _)
WalkLeft(ws, row, c_idx) ==
    IF c_idx < 1 THEN None
    ELSE IF CellValue(ws, row, c_idx) # None THEN CellValue(ws, row, c_idx)
    ELSE WalkLeft(ws, row, c_idx - 1)

get_merged_cell_value(ws, row, col) ==
    IF CellValue(ws, row, col) # None THEN CellValue(ws, row, col)
    ELSE WalkLeft(ws, row, col - 1)

IsTestType(v) == v.k = "str" /\ v.s \in Range(KEY_TEST_TYPES)

\* The columns of row 4 that hold a test type under a subject name.
SubjectCols(ws) ==
    {c \in 1..max_column(ws) :
        /\ IsTestType(CellValue(ws, 4, c))
        /\ Truthy(get_merged_cell_value(ws, 1, c))}

SubjectKey(ws, c) == <<get_merged_cell_value(ws, 1, c), CellValue(ws, 4, c)>>

\* mapping[(subject_name, cell.value)] = c_idx, a later column overwriting
\* an equal key.
map_subject_columns(ws) ==
    [key \in {SubjectKey(ws, c) : c \in SubjectCols(ws)} |->
        MaxOf({c \in SubjectCols(ws) : SubjectKey(ws, c) = key}, 0)]

IsOtherCol(v) == v.k = "str" /\ v.s \in KEY_OTHER_COLS

map_other_columns(ws) ==
    LET cols == {c \in 1..max_column(ws) : IsOtherCol(CellValue(ws, 1, c))}
    IN  [key \in {CellValue(ws, 1, c).s : c \in cols} |->
            MaxOf({c \in cols : CellValue(ws, 1, c).s = key}, 0)]

\* dict.get(key): 0 stands for None.
Get(map, key) == IF key \in DOMAIN map THEN map[key] ELSE 0

(***************************************************************************)
(* ExcelRepository.update_grades_sheet                                     *)
(***************************************************************************)
FirstDataRow == 5
HeaderRows == 4

\* A variant of the row check with the threshold one lower.
TooFewRowsBelowThree(ws) == max_row(ws) < 3

\* if ws.max_row < 4
TooFewRows(ws) == max_row(ws) < HeaderRows

\* A variant that reads the name column instead of the ID column.
BuildStudentRowMapByName(ws) ==
    LET rows == {r \in 5..max_row(ws) : Truthy(CellValue(ws, r, 2))}
    IN  [id \in {ValueStr(CellValue(ws, r, 2)) : r \in rows} |->
            MaxOf({r \in rows : ValueStr(CellValue(ws, r, 2)) = id}, 0)]

\* {str(ws.cell(row=r, column=1).value): r for r in range(5, ws.max_row + 1)
\*  if ws.cell(row=r, column=1).value}
BuildStudentRowMap(ws) ==
    LET rows == {r \in FirstDataRow..max_row(ws) : Truthy(CellValue(ws, r, 1))}
    IN  [id \in {ValueStr(CellValue(ws, r, 1)) : r \in rows} |->
            MaxOf({r \in rows : ValueStr(CellValue(ws, r, 1)) = id}, 0)]

\* A variant that starts one past the smallest indexed row.
InitialCursorAfterFirst(row_map) ==
    IF DOMAIN row_map = {} THEN 5
    ELSE (CHOOSE r \in Range(row_map) : \A q \in Range(row_map) : r <= q) + 1

\* (max(student_row_map.values()) + 1) if student_row_map else 5
InitialCursor(row_map) ==
    IF DOMAIN row_map = {} THEN FirstDataRow ELSE MaxOf(Range(row_map), 0) + 1

\* A variant that always appends.
TargetRowAppend(row_map, cursor, student) == cursor

\* target_row = student_row_map.get(student.id); if not target_row: ...
TargetRow(row_map, cursor, student) ==
    IF Get(row_map, student.id) # 0 THEN Get(row_map, student.id) ELSE cursor

\* A variant in which the cursor stays where it is.
NextCursorStays(row_map, cursor, student) == cursor

\* if not target_row: ... next_new_student_row += 1
NextCursor(row_map, cursor, student) ==
    IF Get(row_map, student.id) = 0 THEN cursor + 1 ELSE cursor

Letters ==
    <<"A", "B", "C", "D", "E", "F", "G", "H", "I", "J", "K", "L", "M",
      "N", "O", "P", "Q", "R", "S", "T", "U", "V", "W", "X", "Y", "Z">>

\* openpyxl.utils.get_column_letter
RECURSIVE get_column_letter(_)
get_column_letter(c) ==
    IF c <= 26 THEN <<Letters[c]>>
    ELSE get_column_letter((c - 1) \div 26) \o <<Letters[((c - 1) % 26) + 1]>>

\* A variant that takes the columns of every test type.
RetestColsAnyType(smap) == {smap[key] : key \in DOMAIN smap}

\* [c for (s, t), c in subject_column_map.items() if t == KEY_TEST_TYPES[1]]
\* as the set of columns.
RetestCols(smap) ==
    {smap[key] : key \in {q \in DOMAIN smap : q[2] = Str(KEY_TEST_TYPES[2])}}

\* ','.join(cell_addresses), the columns taken in increasing order
RECURSIVE JoinAddresses(_, _)
JoinAddresses(cols, row) ==
    IF cols = {} THEN <<>>
    ELSE LET c == CHOOSE x \in cols : \A y \in cols : x <= y
             rest == JoinAddresses(cols \ {c}, row)
         IN  get_column_letter(c) \o IntStr(row)
                \o (IF rest = <<>> THEN <<>> ELSE <<",">> \o rest)

\* f"=COUNT({','.join(cell_addresses)})"
CountFormula(cols, row) ==
    Str(<<"=", "C", "O", "U", "N", "T", "(">> \o JoinAddresses(cols, row) \o <<")">>)

RETEST_COUNT == <<"sai", "shi", "suu">>

\* A variant that writes no score.
ScoreWritesNone(smap, student, row) == <<>>

\* The cells one record's scores are written to: resolved pairs only.
ScoreWrites(smap, student, row) ==
    LET keys == {key \in DOMAIN student.scores :
                    Get(smap, <<Str(key[1]), Str(key[2])>>) # 0}
        col(key) == Get(smap, <<Str(key[1]), Str(key[2])>>)
    IN  [p \in {<<row, col(key)>> : key \in keys} |->
            student.scores[CHOOSE key \in keys : col(key) = p[2]]]

\* A variant that writes the retest count like the other fields.
SummaryWritesEveryField(omap, student, row) ==
    LET keys == {key \in DOMAIN student.summary_data : Get(omap, key) # 0}
    IN  [p \in {<<row, Get(omap, key)>> : key \in keys} |->
            student.summary_data[CHOOSE key \in keys : Get(omap, key) = p[2]]]

\* The cells one record's aggregate fields are written to.
SummaryWrites(omap, student, row) ==
    LET keys == {key \in DOMAIN student.summary_data :
                    Get(omap, key) # 0 /\ key # RETEST_COUNT}
    IN  [p \in {<<row, Get(omap, key)>> : key \in keys} |->
            student.summary_data[CHOOSE key \in keys : Get(omap, key) = p[2]]]

\* The retest-count formula cell, if it is written.
FormulaWrites(smap, omap, row) ==
    IF Get(omap, RETEST_COUNT) # 0 /\ RetestCols(smap) # {}
    THEN [p \in {<<row, Get(omap, RETEST_COUNT)>>} |->
            CountFormula(RetestCols(smap), row)]
    ELSE <<>>

\* Apply a group of writes (no write for a None value).
Apply(ws, writes) ==
    [p \in DOMAIN ws \cup {q \in DOMAIN writes : writes[q] # None} |->
        IF p \in DOMAIN writes /\ writes[p] # None THEN writes[p] ELSE ws[p]]

\* The body of the loop for one record, in the order of the code.
WriteRecord(ws, smap, omap, student, row) ==
    LET w1 == SetCell(SetCell(ws, row, 1, Str(student.id)), row, 2, Str(student.name))
        w2 == Apply(w1, ScoreWrites(smap, student, row))
        w3 == Apply(w2, SummaryWrites(omap, student, row))
    IN  Apply(w3, FormulaWrites(smap, omap, row))

(***************************************************************************)
(* The inputs of the transcription: the term sheets of the workbook, the   *)
(* list of terms and the list of records.                                  *)
(***************************************************************************)
MaxStudents == 2        \* records in the input list
MaxExisting == 2        \* data rows of a term sheet before the run
MaxTerms == 2           \* terms in the list

ZENKI == <<"zen", "ki">>
TSUUKI == <<"tsuu", "ki">>
Terms == {ZENKI, TSUUKI}

S1 == <<"S", "1">>
S2 == <<"S", "2">>
S3 == <<"S", "3">>
S9 == <<"S", "9">>

HONSHI == KEY_TEST_TYPES[1]
SAISHI == KEY_TEST_TYPES[2]
SOUTEN == <<"sou", "ten">>

\* A record as the loader builds it: v is the value of each of its entries.
\* The sheets below have no column for (Sci, honshi).
Student(id, v) ==
    [id |-> id, name |-> <<"Taro">>,
     scores |-> [key \in {<<<<"Math">>, HONSHI>>, <<<<"Math">>, SAISHI>>,
                          <<<<"Sci">>, HONSHI>>} |-> v],
     attendance |-> <<>>,
     summary_data |-> [key \in {SOUTEN, RETEST_COUNT} |-> v]]

Records ==
    {Student(S1, IntVal(80)), Student(S1, IntVal(90)), Student(S9, IntVal(80))}

\* A header block: row 1 and row 4, one value per column.
HeaderCells(row1, row4) ==
    [p \in {<<1, c>> : c \in DOMAIN row1} \cup {<<4, c>> : c \in DOMAIN row4} |->
        IF p[1] = 1 THEN row1[p[2]] ELSE row4[p[2]]]

\* Math merged over columns 3-4, Eng, total score, retest count, a memo
\* column no map resolves.
HeaderMain ==
    HeaderCells(
        <<Str(<<"ID">>), Str(<<"NAME">>), Str(<<"Math">>), None, Str(<<"Eng">>),
          Str(SOUTEN), Str(RETEST_COUNT), Str(<<"memo">>)>>,
        <<None, None, Str(HONSHI), Str(SAISHI), Str(HONSHI), None, None, None>>)

\* No retest column and no aggregate column.
HeaderPlain ==
    HeaderCells(
        <<Str(<<"ID">>), Str(<<"NAME">>), Str(<<"Math">>)>>,
        <<None, None, Str(HONSHI)>>)

\* Two retest columns (Math merged over columns 3-4, Eng) and the retest
\* count.
HeaderRetest ==
    HeaderCells(
        <<Str(<<"ID">>), Str(<<"NAME">>), Str(<<"Math">>), None, Str(<<"Eng">>),
          Str(RETEST_COUNT)>>,
        <<None, None, Str(HONSHI), Str(SAISHI), Str(SAISHI), None>>)

\* The retest count and the total score, but no retest column.
HeaderNoRetest ==
    HeaderCells(
        <<Str(<<"ID">>), Str(<<"NAME">>), Str(<<"Math">>), Str(RETEST_COUNT),
          Str(SOUTEN)>>,
        <<None, None, Str(HONSHI), None, None>>)

\* Fewer than 4 rows.
HeaderShort ==
    [p \in {<<1, 1>>, <<1, 2>>, <<3, 1>>} |-> Str(<<"ID">>)]

\* The ID cell of an existing data row: none (the row has only a memo) or
\* a text ID; other IDs and numbers are in the sheets listed one by one.
ExistingIds == {None, Str(S1)}

\* Data rows 5.. with the given ID cells; each row also holds an old score
\* in column 3 and a memo in column 8.
DataCells(ids) ==
    [p \in {<<FirstDataRow - 1 + i, c>> : i \in DOMAIN ids, c \in {1, 3, 8}} |->
        CASE p[2] = 1 -> ids[p[1] - FirstDataRow + 1]
          [] p[2] = 3 -> IntVal(50)
          [] OTHER -> Str(<<"memo">>)]

Sheet(hdr, ids) == [p \in DOMAIN hdr \cup DOMAIN DataCells(ids) |->
                        IF p \in DOMAIN hdr THEN hdr[p] ELSE DataCells(ids)[p]]

Sheets ==
    {Sheet(HeaderMain, ids) : ids \in SeqsUpTo(ExistingIds, MaxExisting)}
    \cup {Sheet(HeaderMain, <<Str(S1), Str(S2), Str(S3)>>),
          Sheet(HeaderMain, <<Str(S1), None, Str(S2)>>),
          Sheet(HeaderMain, <<IntVal(7), IntVal(0)>>),
          Sheet(HeaderPlain, <<Str(S1)>>),
          Sheet(HeaderRetest, <<Str(S1)>>),
          Sheet(HeaderNoRetest, <<Str(S1)>>),
          HeaderShort}

\* The terms that have a sheet: none, one of them, both.
Present == {{}, {ZENKI}, Terms}

\* A workbook in which the term sheets that exist all start as sh.
Workbook(present, sh) ==
    [name \in {SHEET_NAME_GRADES_TEMPLATE(t) : t \in present} |-> sh]

(***************************************************************************)
(* status_callback messages                                                *)
(***************************************************************************)
Msg(m, sheet) == [m |-> m, sheet |-> sheet]

(***************************************************************************)
(* transfer_service.run and ExcelRepository.update_grades_sheet            *)
(***************************************************************************)
NoMap == <<>>

\* The record of a completed call of update_grades_sheet.
Call(term, outcome, before, after, tg) ==
    [term |-> term, outcome |-> outcome, before |-> before, after |-> after,
     targets |-> tg]

\* A variant of the loop that stops after the first term.
MoreTermsFirstOnly(ts, i) == i <= Len(ts) /\ i = 1

\* `for term in terms`: whether the loop has a term at position i.
MoreTerms(ts, i) == i <= Len(ts)

\* transfer_service.run up to its loop.
TransferRun ==
    /\ tr_pc = "start"
    /\ IF terms = <<>>
       THEN /\ status' = status \o <<Msg("transfer", <<>>), Msg("warn_no_terms", <<>>)>>
            /\ tr_pc' = "done"
       ELSE /\ status' = Append(status, Msg("transfer", <<>>))
            /\ tr_pc' = "term"
    /\ UNCHANGED <<workbook, terms, term_i, subject_column_map, other_column_map,
                   student_row_map, next_new_student_row, stu_i, targets,
                   ws_before, calls>>
    /\ UNCHANGED <<students, notSheet>>

\* update_grades_sheet(term, students, status_callback) up to its loop:
\* the sheet checks, the two column maps, the ID index and the cursor.
UpdateBegin ==
    /\ tr_pc = "term"
    /\ MoreTerms(terms, term_i)
    /\ LET term == terms[term_i]
           sheet_name == SHEET_NAME_GRADES_TEMPLATE(term)
       IN  IF sheet_name \notin DOMAIN workbook
           THEN /\ status' = Append(status, Msg("warn_missing", sheet_name))
                /\ calls' = Append(calls, Call(term, "missing", <<>>, <<>>, <<>>))
                /\ term_i' = term_i + 1
                /\ UNCHANGED <<tr_pc, subject_column_map, other_column_map,
                               student_row_map, next_new_student_row, stu_i,
                               targets, ws_before>>
           ELSE IF TooFewRows(workbook[sheet_name])
           THEN /\ status' = Append(status, Msg("warn_short", sheet_name))
                /\ calls' = Append(calls, Call(term, "short", workbook[sheet_name],
                                               workbook[sheet_name], <<>>))
                /\ term_i' = term_i + 1
                /\ UNCHANGED <<tr_pc, subject_column_map, other_column_map,
                               student_row_map, next_new_student_row, stu_i,
                               targets, ws_before>>
           ELSE LET ws == workbook[sheet_name]
                IN  /\ status' = Append(status, Msg("processing", sheet_name))
                    /\ subject_column_map' = map_subject_columns(ws)
                    /\ other_column_map' = map_other_columns(ws)
                    /\ student_row_map' = BuildStudentRowMap(ws)
                    /\ next_new_student_row' = InitialCursor(BuildStudentRowMap(ws))
                    /\ stu_i' = 1
                    /\ targets' = <<>>
                    /\ ws_before' = ws
                    /\ tr_pc' = "loop"
                    /\ UNCHANGED <<term_i, calls>>
    /\ UNCHANGED <<workbook, terms>>
    /\ UNCHANGED <<students, notSheet>>

\* One iteration of `for student in students`.
WriteStudent ==
    /\ tr_pc = "loop"
    /\ stu_i <= Len(students)
    /\ LET student == students[stu_i]
           sheet_name == SHEET_NAME_GRADES_TEMPLATE(terms[term_i])
           target_row == TargetRow(student_row_map, next_new_student_row, student)
       IN  /\ next_new_student_row' =
                NextCursor(student_row_map, next_new_student_row, student)
           /\ workbook' = [workbook EXCEPT ![sheet_name] =
                WriteRecord(@, subject_column_map, other_column_map, student, target_row)]
           /\ targets' = Append(targets, target_row)
    /\ stu_i' = stu_i + 1
    /\ UNCHANGED <<terms, term_i, tr_pc, subject_column_map, other_column_map,
                   student_row_map, status, ws_before, calls>>
    /\ UNCHANGED <<students, notSheet>>

\* The end of update_grades_sheet: the completion message.
UpdateEnd ==
    /\ tr_pc = "loop"
    /\ stu_i > Len(students)
    /\ LET sheet_name == SHEET_NAME_GRADES_TEMPLATE(terms[term_i])
       IN  /\ status' = Append(status, Msg("updated", sheet_name))
           /\ calls' = Append(calls, Call(terms[term_i], "done", ws_before,
                                          workbook[sheet_name], targets))
    /\ term_i' = term_i + 1
    /\ tr_pc' = "term"
    /\ UNCHANGED <<workbook, terms, subject_column_map, other_column_map,
                   student_row_map, next_new_student_row, stu_i, targets,
                   ws_before>>
    /\ UNCHANGED <<students, notSheet>>

\* transfer_service.run returns after the last term.
TransferReturn ==
    /\ tr_pc = "term"
    /\ ~MoreTerms(terms, term_i)
    /\ tr_pc' = "done"
    /\ UNCHANGED <<workbook, terms, term_i, subject_column_map, other_column_map,
                   student_row_map, next_new_student_row, stu_i, status, targets,
                   ws_before, calls>>
    /\ UNCHANGED <<students, notSheet>>

SheetNext == TransferRun \/ UpdateBegin \/ WriteStudent \/ UpdateEnd \/ TransferReturn

(***************************************************************************)
(* Merged-cell resolution on its own: a header row 1 of up to MaxHeaderCols*)
(* cells, each None (an empty cell, or a cell of a merged range other than *)
(* the first), a subject name or the empty string, queried column by       *)
(* column as _map_subject_columns does.                                    *)
(***************************************************************************)
MaxHeaderCols == 5

HeaderValues == {None, Str(<<"Math">>), Str(<<"Eng">>), Str(<<>>)}

HeaderRowSheets ==
    {HeaderCells(row1, <<>>) : row1 \in SeqsUpTo(HeaderValues, MaxHeaderCols)}

\* subject_name = self._get_merged_cell_value(ws, 1, c_idx) at the next column
ResolveColumn ==
    /\ Len(resolved) < max_column(hd_ws)
    /\ resolved' = Append(resolved, get_merged_cell_value(hd_ws, 1, Len(resolved) + 1))
    /\ UNCHANGED <<hd_ws, notHdr>>

HeaderNext == ResolveColumn

(***************************************************************************)
(* task_runner.run_all_tasks.  Each step (the CSV load, the workbook open, *)
(* the three tasks, the save) returns or raises an exception of one of the *)
(* classes below; what a task wrote to the in-memory workbook before it    *)
(* raised stays there.                                                     *)
(***************************************************************************)
\* The parent class of each exception class (Python's hierarchy; IOError is
\* OSError).
Parent ==
    [c \in {"MemoryError", "OSError", "FileNotFoundError", "PermissionError",
            "LookupError", "KeyError", "ValueError", "UnicodeDecodeError",
            "AttributeError"} |->
        CASE c \in {"FileNotFoundError", "PermissionError"} -> "OSError"
          [] c = "KeyError" -> "LookupError"
          [] c = "UnicodeDecodeError" -> "ValueError"
          [] OTHER -> "Exception"]

ExceptionClasses == DOMAIN Parent

RECURSIVE IsInstance(_, _)
IsInstance(c, cls) ==
    IF c = cls THEN TRUE
    ELSE IF c \in DOMAIN Parent THEN IsInstance(Parent[c], cls)
    ELSE FALSE

\* except (FileNotFoundError, KeyError, ValueError, IOError, PermissionError)
HandledClasses ==
    {"FileNotFoundError", "KeyError", "ValueError", "OSError", "PermissionError"}

\* A variant without the last except clause.
HandlerNoCatchAll(c) ==
    IF c = "MemoryError" THEN "memory"
    ELSE IF c \in {"FileNotFoundError", "KeyError", "ValueError", "OSError",
                   "PermissionError", "UnicodeDecodeError"} THEN "handled"
    ELSE "none"

\* The except clause that catches an exception of class c, in the order of
\* the clauses; "none" when it propagates to the caller.
Handler(c) ==
    IF IsInstance(c, "MemoryError") THEN "memory"
    ELSE IF \E h \in HandledClasses : IsInstance(c, h) THEN "handled"
    ELSE IF IsInstance(c, "Exception") THEN "unexpected"
    ELSE "none"

\* An exception: its class and its text, which names the step it came from.
Exc(c, step) == [cls |-> c, text |-> step]

\* The outcome of a step that returns normally.
Returned == [cls |-> "none", text |-> ""]

NoResult == [returned |-> FALSE, ok |-> FALSE, msg |-> <<>>]

\* The message each except clause returns and the one it reports through
\* status_callback: the fixed memory text, or a text built around str(e).
ReturnedMessage(e) ==
    CASE Handler(e.cls) = "memory" -> <<"memory shortage">>
      [] Handler(e.cls) = "handled" -> <<"aborted, reason:", e.text>>
      [] OTHER -> <<"serious error, details:", e.text>>

StatusMessage(e) ==
    CASE Handler(e.cls) = "memory" -> <<"fatal error:", "memory shortage">>
      [] Handler(e.cls) = "handled" -> <<"error:", e.text>>
      [] OTHER -> <<"fatal error:", "unexpected error:", e.text>>

\* f"...completed.\nFile: {excel_path}"
SuccessMessage(excel_path) == <<"completed, file:", excel_path>>

Steps == <<"load", "open", "transfer", "grades", "attendance", "save">>

\* A variant that runs every task.
SelectedAlways(tk, step) == TRUE

\* The task flag that selects a step; the load, the open and the save are
\* not optional.
Selected(tk, step) ==
    CASE step = "transfer" -> tk.transfer
      [] step = "grades" -> tk.grades
      [] step = "attendance" -> tk.attendance
      [] OTHER -> TRUE

\* progress_callback(n) after each step
ProgressAfter(step) ==
    CASE step = "load" -> 10
      [] step = "open" -> 20
      [] step = "transfer" -> 50
      [] step = "grades" -> 75
      [] step = "attendance" -> 90
      [] OTHER -> 100

\* status_callback before a step
StepStatus(step) ==
    CASE step = "load" -> <<Msg("step 1/4", <<>>)>>
      [] step = "open" -> <<Msg("step 2/4", <<>>)>>
      [] step = "transfer" -> <<Msg("step 3/4", <<>>)>>
      [] step = "save" -> <<Msg("step 4/4", <<>>)>>
      [] OTHER -> <<>>

\* A variant in which a step that raises is followed by the save.
NextPcSaveAfterRaise(n, out) ==
    IF n = 6 THEN "returned"
    ELSE IF out = [cls |-> "none", text |-> ""]
    THEN <<"load", "open", "transfer", "grades", "attendance", "save">>[n + 1]
    ELSE "save"

\* Where control goes after a step: on to the next statement of the try
\* block, or through an except clause to the return (or out of the
\* function when no clause catches the exception).
NextPc(n, out) ==
    IF out = Returned
    THEN IF n < Len(Steps) THEN Steps[n + 1] ELSE "returned"
    ELSE IF Handler(out.cls) = "none" THEN "escaped" ELSE "returned"

StepIndex(step) == CHOOSE n \in DOMAIN Steps : Steps[n] = step

\* load_students_from_csv: the except clauses around read_csv turn what it
\* raises into ValueError, FileNotFoundError excepted.
LoadWrap(c) ==
    IF IsInstance(c, "UnicodeDecodeError") THEN "ValueError"
    ELSE IF IsInstance(c, "FileNotFoundError") THEN "FileNotFoundError"
    ELSE IF IsInstance(c, "Exception") THEN "ValueError"
    ELSE c

\* ExcelRepository.__init__: what load_workbook raises becomes
\* FileNotFoundError or IOError.
OpenWrap(c) ==
    IF IsInstance(c, "FileNotFoundError") THEN "FileNotFoundError"
    ELSE IF IsInstance(c, "Exception") THEN "OSError"
    ELSE c

\* ExcelRepository.save: what workbook.save raises becomes PermissionError
\* or IOError.
SaveWrap(c) ==
    IF IsInstance(c, "PermissionError") THEN "PermissionError"
    ELSE IF IsInstance(c, "OSError") THEN "OSError"
    ELSE IF IsInstance(c, "Exception") THEN "OSError"
    ELSE c

\* load_students_from_csv: the except clause of the row loop turns what
\* the processing of a row raises into ValueError.
RowWrap(c) == IF IsInstance(c, "Exception") THEN "ValueError" ELSE c

\* The places of a step where an exception can arise: the two try blocks
\* of the loader and its header checks, the library call of the open and
\* of the save, the body of a task.
Places(step) ==
    CASE step = "load" -> {"read_csv", "row", "header"}
      [] step = "open" -> {"load_workbook"}
      [] step = "save" -> {"workbook.save"}
      [] OTHER -> {"task"}

\* The class of the exception a step raises when c arises at a place of
\* it; the header checks and the services catch nothing.
Raised(place, c) ==
    CASE place = "read_csv" -> LoadWrap(c)
      [] place = "row" -> RowWrap(c)
      [] place = "load_workbook" -> OpenWrap(c)
      [] place = "workbook.save" -> SaveWrap(c)
      [] OTHER -> c

\* What goes wrong inside a step: the place and the class that arises
\* there.  The header checks raise KeyError and nothing else.
NoFailure == [place |-> "", cls |-> "none"]

Failures(step) ==
    {[place |-> pl, cls |-> c] :
        pl \in Places(step) \ {"header"}, c \in ExceptionClasses}
    \cup {[place |-> pl, cls |-> "KeyError"] : pl \in Places(step) \cap {"header"}}

\* A task that finds nothing to write to (no sheet of a term, a sheet with
\* too few rows, no column of its kind) warns and returns.
Skip == [place |-> "task", cls |-> "skip"]

Skips(step) == IF step \in {"transfer", "grades", "attendance"} THEN {Skip} ELSE {}

\* A variant in which a task that finds nothing to write to raises.
OutcomeOfSkipRaises(step, f) ==
    IF f = [place |-> "", cls |-> "none"] THEN [cls |-> "none", text |-> ""]
    ELSE IF f.cls = "skip" THEN [cls |-> "ValueError", text |-> step]
    ELSE [cls |-> Raised(f.place, f.cls), text |-> step]

OutcomeOf(step, f) ==
    IF f \in {NoFailure, Skip} THEN Returned
    ELSE Exc(Raised(f.place, f.cls), step)

\* What can happen inside a step.
Events(step) == Failures(step) \cup Skips(step) \cup {NoFailure}

Outcomes(step) == {OutcomeOf(step, f) : f \in Events(step)}

\* The warning of a task that skips.
SkipStatus(step, f) == IF f = Skip THEN <<Msg("warning", <<step>>)>> ELSE <<>>

\* One statement group of the try block, with the except clause and the
\* finally block when it raises.
RunStep ==
    /\ run_pc \in Range(Steps)
    /\ LET step == run_pc
           n == StepIndex(step)
       IN  IF ~Selected(tasks, step)
           THEN /\ run_pc' = NextPc(n, Returned)
                /\ progress' = Append(progress, ProgressAfter(step))
                /\ status' = status \o StepStatus(step)
                /\ UNCHANGED <<trace, result, mem_written, file_written>>
           ELSE \E f \in Events(step), wrote \in BOOLEAN :
                LET out == OutcomeOf(step, f) IN
                /\ step \in {"transfer", "grades", "attendance"} \/ ~wrote
                /\ f = Skip => ~wrote
                /\ trace' = Append(trace, [step |-> step, out |-> out, cause |-> f])
                /\ run_pc' = NextPc(n, out)
                /\ mem_written' = IF wrote THEN mem_written \cup {step} ELSE mem_written
                /\ file_written' =
                        IF step = "save" /\ out = Returned THEN mem_written ELSE file_written
                /\ IF out = Returned
                   THEN /\ progress' =
                            IF step = "save"
                            THEN progress \o <<ProgressAfter(step), 0>>
                            ELSE Append(progress, ProgressAfter(step))
                        /\ status' =
                            IF step = "save"
                            THEN status \o StepStatus(step)
                                    \o <<Msg("success", SuccessMessage(files[2]))>>
                            ELSE status \o StepStatus(step) \o SkipStatus(step, f)
                        /\ result' =
                            IF step = "save"
                            THEN [returned |-> TRUE, ok |-> TRUE,
                                  msg |-> SuccessMessage(files[2])]
                            ELSE result
                   ELSE /\ progress' = Append(progress, 0)
                        /\ status' =
                            IF Handler(out.cls) = "none"
                            THEN status \o StepStatus(step) \o SkipStatus(step, f)
                            ELSE status \o StepStatus(step) \o SkipStatus(step, f)
                                    \o <<Msg("failure", StatusMessage(out))>>
                        /\ result' =
                            IF Handler(out.cls) = "none" THEN result
                            ELSE [returned |-> TRUE, ok |-> FALSE,
                                  msg |-> ReturnedMessage(out)]
    /\ UNCHANGED <<tasks, files, notRun>>

RunNext == RunStep

TaskFlags == [transfer : BOOLEAN, grades : BOOLEAN, attendance : BOOLEAN]

Paths == {<<"in.csv", "a.xlsx">>, <<"in.csv", "b.xlsx">>}

(***************************************************************************)
(* services/summary_service.py and ExcelRepository.create_summary_sheet.   *)
(* A book is the workbook with the merged ranges of its worksheets:        *)
(* [sheets, merged].  Fonts, fills, alignment, borders and column widths   *)
(* change no cell value and are left out.                                  *)
(***************************************************************************)
MaxBuilds == 2          \* builder calls made on one workbook

SHEET_NAME_GRADE_SUMMARY == <<"hyo", "tei", "ichi", "ran">>
SHEET_NAME_ATTENDANCE_SUMMARY ==
    <<"ka", "moku", "betsu", "ko", "jin", "shus", "seki", "jou", "kyou">>

\* attendance_map = config.KEY_ATTENDANCE: short code -> display label.
attendance_map ==
    [k \in KEY_ATTENDANCE |->
        CASE k = <<"ketsu">> -> <<"kes", "seki">>
          [] k = <<"chi">> -> <<"chi", "koku">>
          [] OTHER -> <<"sou", "tai">>]

\* The literal labels of the two leading header cells.
LabelId == <<"gaku", "seki", "ban", "gou">>
LabelName == <<"shi", "mei">>
LabelSubject == <<"ka", "moku", "mei">>

\* dict.get(key, '')
GetOrEmpty(map, key) == IF key \in DOMAIN map THEN map[key] ELSE Str(<<>>)

\* A variant that keeps every occurrence.
FromKeysKeepAll(xs) == xs

\* list(OrderedDict.fromkeys(xs)): the first occurrence of each element.
RECURSIVE FromKeys(_)
FromKeys(xs) ==
    IF xs = <<>> THEN <<>>
    ELSE LET init == FromKeys(SubSeq(xs, 1, Len(xs) - 1))
             last == xs[Len(xs)]
         IN  IF last \in Range(init) THEN init ELSE Append(init, last)

\* [col[0] for col in original_columns if col[1] == config.KEY_GRADE]
grade_cols_subjects(columns) ==
    LET g == SelectSeq(columns, LAMBDA c : c[2] = KEY_GRADE)
    IN  [i \in DOMAIN g |-> g[i][1]]

subjects(columns) == FromKeys(grade_cols_subjects(columns))

\* [col for col in original_columns if col[1] in short_types]
attendance_keys(columns) ==
    SelectSeq(columns, LAMBDA c : c[2] \in DOMAIN attendance_map)

\* ws.append(row): the row after the last one, row 1 on a new worksheet;
\* every value of the list gets a cell.
AppendRow(ws, row) ==
    LET r == IF DOMAIN ws = {} THEN 1 ELSE max_row(ws) + 1
    IN  [p \in DOMAIN ws \cup {<<r, c>> : c \in DOMAIN row} |->
            IF p[1] = r THEN row[p[2]] ELSE ws[p]]

RECURSIVE AppendRows(_, _)
AppendRows(ws, rows) ==
    IF rows = <<>> THEN ws
    ELSE AppendRows(AppendRow(ws, Head(rows)), Tail(rows))

\* ws.insert_rows(1): every cell moves one row down.
insert_rows(ws) ==
    [p \in {<<q[1] + 1, q[2]>> : q \in DOMAIN ws} |-> ws[<<p[1] - 1, p[2]>>]]

RECURSIVE WriteRow(_, _, _)
\* for col_idx, value in enumerate(row, 1): ws.cell(row=r, column=col_idx, value=value)
WriteRow(ws, r, row) ==
    IF row = <<>> THEN ws
    ELSE SetCell(WriteRow(ws, r, SubSeq(row, 1, Len(row) - 1)),
                 r, Len(row), row[Len(row)])

\* A merged range of one row.
MergedRange(r, a, b) == [row |-> r, from |-> a, to |-> b]

\* ws.merge_cells: the range is recorded and every cell of it but the first
\* loses its value.
merge_cells(ws, rg) ==
    [p \in DOMAIN ws \cup {<<rg.row, c>> : c \in rg.from..rg.to} |->
        IF p[1] = rg.row /\ p[2] \in (rg.from + 1)..rg.to THEN None
        ELSE IF p \in DOMAIN ws THEN ws[p] ELSE None]

RECURSIVE MergeAll(_, _)
MergeAll(ws, rgs) ==
    IF rgs = {} THEN ws
    ELSE LET rg == CHOOSE x \in rgs : TRUE
         IN  MergeAll(merge_cells(ws, rg), rgs \ {rg})

\* The sheets of a book without one name; the merged ranges go with it.
Without(map, name) == [n \in DOMAIN map \ {name} |-> map[n]]

\* A variant that leaves the old sheet in the workbook.
RemoveSheetNever(book, sheet_name) == book

\* if sheet_name in self.workbook.sheetnames: del self.workbook[sheet_name]
RemoveSheet(book, sheet_name) ==
    [sheets |-> Without(book.sheets, sheet_name),
     merged |-> Without(book.merged, sheet_name)]

\* workbook.create_sheet(title): openpyxl adds a digit to a title in use.
create_sheet(sheets, title) ==
    IF title \in DOMAIN sheets THEN title \o <<"1">> ELSE title

With(map, name, v) == [n \in DOMAIN map \cup {name} |-> IF n = name THEN v ELSE map[n]]

\* ExcelRepository.create_summary_sheet
create_summary_sheet(book, sheet_name, headers, data_rows) ==
    LET b == RemoveSheet(book, sheet_name)
        title == create_sheet(b.sheets, sheet_name)
        ws == AppendRows(AppendRow(<<>>, headers), data_rows)
    IN  [sheets |-> With(b.sheets, title, ws), merged |-> b.merged]

\* headers and data_rows of create_grade_summary
GradeHeaders(columns) ==
    LET sub == subjects(columns)
    IN  <<Str(LabelId), Str(LabelName)>> \o [j \in DOMAIN sub |-> Str(sub[j])]

GradeRows(studs, columns) ==
    LET sub == subjects(columns)
    IN  [i \in DOMAIN studs |->
            <<Str(studs[i].id), Str(studs[i].name)>>
            \o [j \in DOMAIN sub |->
                    GetOrEmpty(studs[i].scores, <<sub[j], KEY_GRADE>>)]]

\* A variant that builds the sheet also when there is no subject.
create_grade_summaryNoSkip(book, studs, columns) ==
    [book |-> create_summary_sheet(book, SHEET_NAME_GRADE_SUMMARY,
                    GradeHeaders(columns), GradeRows(studs, columns)),
     status |-> <<Msg("grade_start", <<>>), Msg("grade_done", <<>>)>>]

\* create_grade_summary: the book and the status messages it leaves.
create_grade_summary(book, studs, columns) ==
    IF subjects(columns) = <<>>
    THEN [book |-> book,
          status |-> <<Msg("grade_start", <<>>), Msg("grade_skip", <<>>)>>]
    ELSE [book |-> create_summary_sheet(book, SHEET_NAME_GRADE_SUMMARY,
                        GradeHeaders(columns), GradeRows(studs, columns)),
          status |-> <<Msg("grade_start", <<>>), Msg("grade_done", <<>>)>>]

\* header_row1, header_row2 and data_rows of create_attendance_summary
header_row1(columns) ==
    LET keys == attendance_keys(columns)
    IN  <<Str(LabelSubject), Str(<<>>)>> \o [j \in DOMAIN keys |-> Str(keys[j][1])]

\* A variant that writes the short code.
header_row2Short(columns) ==
    LET keys == attendance_keys(columns)
    IN  <<Str(LabelId), Str(LabelName)>> \o [j \in DOMAIN keys |-> Str(keys[j][2])]

header_row2(columns) ==
    LET keys == attendance_keys(columns)
    IN  <<Str(LabelId), Str(LabelName)>>
        \o [j \in DOMAIN keys |-> Str(attendance_map[keys[j][2]])]

AttendanceRows(studs, columns) ==
    LET keys == attendance_keys(columns)
    IN  [i \in DOMAIN studs |->
            <<Str(studs[i].id), Str(studs[i].name)>>
            \o [j \in DOMAIN keys |-> GetOrEmpty(studs[i].attendance, keys[j])]]

\* The loop over col_idx that merges row 1: start_col is the first column
\* of the run, and a run ends where the label differs from the label at
\* start_col or the list ends.
RECURSIVE MergeLoop(_, _, _)
MergeLoop(row1, start_col, col_idx) ==
    IF col_idx > Len(row1) + 1 THEN {}
    ELSE IF col_idx > Len(row1) \/ row1[col_idx] # row1[start_col]
         THEN (IF col_idx - 1 > start_col
               THEN {MergedRange(1, start_col, col_idx - 1)} ELSE {})
              \cup MergeLoop(row1, col_idx, col_idx + 1)
         ELSE MergeLoop(row1, start_col, col_idx + 1)

\* A variant that does not close the run the list ends in.
HeaderMergesNoTail(row1) ==
    {rg \in (IF Len(row1) > 2 THEN MergeLoop(row1, 3, 4) ELSE {}) :
        rg.to < Len(row1)}

\* if len(header_row1) > 2: ... the ranges handed to merge_header_cells
HeaderMerges(row1) == IF Len(row1) > 2 THEN MergeLoop(row1, 3, 4) ELSE {}

MergedOf(merged, name) == IF name \in DOMAIN merged THEN merged[name] ELSE {}

\* create_attendance_summary: the book and the status messages it leaves.
\* ws = repository.workbook[sheet_name] is the sheet of that name.
create_attendance_summary(book, studs, columns) ==
    IF attendance_keys(columns) = <<>>
    THEN [book |-> book,
          status |-> <<Msg("attendance_start", <<>>), Msg("attendance_skip", <<>>)>>]
    ELSE LET name == SHEET_NAME_ATTENDANCE_SUMMARY
             row1 == header_row1(columns)
             b == create_summary_sheet(book, name, header_row2(columns),
                                       AttendanceRows(studs, columns))
             ws == WriteRow(insert_rows(b.sheets[name]), 1, row1)
             rgs == HeaderMerges(row1)
         IN  [book |->
                [sheets |-> With(b.sheets, name, MergeAll(ws, rgs)),
                 merged |-> With(b.merged, name, MergedOf(b.merged, name) \cup rgs)],
              status |-> <<Msg("attendance_start", <<>>), Msg("attendance_done", <<>>)>>]

\* The record of a builder call: what it was, what it found.
Build(kind, sheets, merged) == [kind |-> kind, before |-> sheets, merged |-> merged]

TheBook == [sheets |-> workbook, merged |-> merged_cells]

\* summary_service.create_grade_summary(repo, students, original_columns, cb)
GradeSummary ==
    /\ Len(builds) < MaxBuilds
    /\ LET r == create_grade_summary(TheBook, students, original_columns)
       IN  /\ workbook' = r.book.sheets
           /\ merged_cells' = r.book.merged
           /\ status' = status \o r.status
    /\ builds' = Append(builds, Build("grade", workbook, merged_cells))
    /\ UNCHANGED <<original_columns, notSum>>

\* summary_service.create_attendance_summary(repo, students, original_columns, cb)
AttendanceSummary ==
    /\ Len(builds) < MaxBuilds
    /\ LET r == create_attendance_summary(TheBook, students, original_columns)
       IN  /\ workbook' = r.book.sheets
           /\ merged_cells' = r.book.merged
           /\ status' = status \o r.status
    /\ builds' = Append(builds, Build("attendance", workbook, merged_cells))
    /\ UNCHANGED <<original_columns, notSum>>

SummaryNext == GradeSummary \/ AttendanceSummary

(***************************************************************************)
(* The inputs of the summary builders.                                     *)
(***************************************************************************)
Math == <<"Math">>
Eng == <<"Eng">>
KETSU == <<"ketsu">>
CHI == <<"chi">>

IdAndName == << Col(<<"ID">>, Unnamed0), Col(<<"NAME">>, KEY_STUDENT_NAME) >>

\* Only Math has a grade column.
ColumnsB ==
    IdAndName \o << Col(Math, HONSHI), Col(Math, KEY_GRADE), Col(Eng, HONSHI) >>

\* Two attendance columns of Math, then one of Eng.
ColumnsC == IdAndName \o << Col(Math, KETSU), Col(Math, CHI), Col(Eng, KETSU) >>

\* Grades and attendance interleaved: Eng before Math, and the attendance
\* columns of Math apart from each other.
ColumnsApart ==
    IdAndName \o << Col(Eng, KEY_GRADE), Col(Math, KETSU), Col(Math, KEY_GRADE),
                    Col(Eng, KETSU), Col(Math, CHI) >>

\* A grade pair handed over twice, and two runs of attendance columns, the
\* second one ending the list.
ColumnsRuns ==
    IdAndName \o << Col(Math, KEY_GRADE), Col(Eng, KEY_GRADE), Col(Math, KEY_GRADE),
                    Col(Math, KETSU), Col(Math, CHI), Col(Math, <<"so">>),
                    Col(Eng, KETSU), Col(Eng, CHI) >>

\* One attendance column and no grade column.
ColumnsOne == IdAndName \o << Col(Math, HONSHI), Col(Math, KETSU) >>

\* Neither a grade column nor an attendance column.
ColumnsNone == IdAndName \o << Col(Math, HONSHI) >>

SummaryColumns ==
    {ColumnsB, ColumnsC, ColumnsApart, ColumnsRuns, ColumnsOne, ColumnsNone}

\* A record with a value at every summary key of the columns above, and
\* one that has Math only.
RecordFull(id, v) ==
    [id |-> id, name |-> <<"Taro">>,
     scores |-> [key \in {<<Math, KEY_GRADE>>, <<Eng, KEY_GRADE>>,
                          <<Math, HONSHI>>} |-> v],
     attendance |-> [key \in {<<Math, KETSU>>, <<Math, CHI>>, <<Eng, KETSU>>,
                              <<Eng, CHI>>, <<Math, <<"so">> >>} |-> v],
     summary_data |-> <<>>]

RecordMathOnly(id) ==
    [id |-> id, name |-> <<>>,
     scores |-> [key \in {<<Math, KEY_GRADE>>} |-> Str(<<"A">>)],
     attendance |-> [key \in {<<Math, KETSU>>} |-> Str(<<>>)],
     summary_data |-> <<>>]

SummaryRecords == {RecordFull(S1, IntVal(4)), RecordFull(S2, IntVal(5)), RecordMathOnly(S3)}

\* A summary sheet an earlier run left: wider and longer than any sheet
\* the builders make from the inputs above.
OldCells ==
    [p \in (1..6) \X (1..11) |-> Str(<<"old">>)]

OtherSheet == <<"memo">>

\* The workbooks: without a summary sheet, with an old grade summary, with
\* an old attendance summary that has a merged range, with both.
OldBook(names) ==
    [sheets |->
        [n \in names \cup {OtherSheet} |->
            IF n = OtherSheet THEN HeaderPlain ELSE OldCells],
     merged |->
        [n \in names \cap {SHEET_NAME_ATTENDANCE_SUMMARY} |->
            {MergedRange(1, 5, 7)}]]

SummaryBooks ==
    {OldBook(names) :
        names \in SUBSET {SHEET_NAME_GRADE_SUMMARY, SHEET_NAME_ATTENDANCE_SUMMARY}}

(***************************************************************************)
(* AppViewModel (ui/viewmodel.py).  start_processing runs on the UI        *)
(* thread, which handles one event at a time; _run_in_thread runs on the   *)
(* worker thread start_processing starts.  The two threads share           *)
(* is_running and the path variables, so each is split where it reads or   *)
(* writes one of them.  run_all_tasks is taken by its contract: it returns *)
(* a pair (success, message) and raises nothing (C5).                      *)
(***************************************************************************)
MaxClicks == 2          \* invocations of start_processing

\* The files os.path.exists finds.
ExistingFiles == {"in.csv", "book.xlsx"}

exists(path) == path \in ExistingFiles

\* The state variables the user edits: the two paths and the five flags.
View(c, x, transfer, grades, attendance, zenki, tsuki) ==
    [csv_path |-> c, excel_path |-> x, process_transfer |-> transfer,
     process_grades |-> grades, process_attendance |-> attendance,
     term_zenki |-> zenki, term_tsuki |-> tsuki]

\* __init__: empty paths, every task and both terms selected.
InitialView == View("", "", TRUE, TRUE, TRUE, TRUE, TRUE)

ReadyView == View("in.csv", "book.xlsx", TRUE, TRUE, TRUE, TRUE, TRUE)

Views ==
    {InitialView, ReadyView,
     View("gone.csv", "book.xlsx", TRUE, TRUE, TRUE, TRUE, TRUE),
     View("in.csv", "", TRUE, TRUE, TRUE, TRUE, TRUE),
     View("in.csv", "gone.xlsx", FALSE, TRUE, FALSE, FALSE, FALSE),
     View("in.csv", "book.xlsx", FALSE, FALSE, FALSE, TRUE, TRUE),
     View("in.csv", "book.xlsx", TRUE, FALSE, TRUE, FALSE, FALSE),
     View("in.csv", "book.xlsx", FALSE, TRUE, FALSE, FALSE, FALSE),
     View("in.csv", "book.xlsx", TRUE, FALSE, FALSE, FALSE, TRUE)}

\* The tasks dictionary of start_processing.
ViewTasks(v) ==
    [transfer |-> v.process_transfer, grades |-> v.process_grades,
     attendance |-> v.process_attendance]

\* selected_terms: built only when transcription is selected, the first
\* term before the full-year term.
selected_terms(v) ==
    IF v.process_transfer
    THEN (IF v.term_zenki THEN <<ZENKI>> ELSE <<>>)
         \o (IF v.term_tsuki THEN <<TSUUKI>> ELSE <<>>)
    ELSE <<>>

\* The validation leaves out the check of the terms.
ValidationNoTerms(v) ==
    CASE v.csv_path = "" \/ ~exists(v.csv_path) -> "csv"
      [] v.excel_path = "" \/ ~exists(v.excel_path) -> "excel"
      [] ~(v.process_transfer \/ v.process_grades \/ v.process_attendance)
            -> "tasks"
      [] OTHER -> "ok"

\* The checks of start_processing in their order: the first that fails shows
\* an error dialog and returns.
Validation(v) ==
    CASE v.csv_path = "" \/ ~exists(v.csv_path) -> "csv"
      [] v.excel_path = "" \/ ~exists(v.excel_path) -> "excel"
      [] ~(v.process_transfer \/ v.process_grades \/ v.process_attendance)
            -> "tasks"
      [] v.process_transfer /\ selected_terms(v) = <<>> -> "terms"
      [] OTHER -> "ok"

\* The guard never finds a run in flight.
BusyNever(running) == FALSE

\* The guard at the top of start_processing.
Busy(running) == running

NoArgs == [tasks |-> ViewTasks(InitialView), terms |-> <<>>, checked |-> <<"", "">>]

\* The arguments of the thread: the tasks and the terms; checked is the pair
\* of paths the validation saw.
ThreadArgs(v) ==
    [tasks |-> ViewTasks(v), terms |-> selected_terms(v),
     checked |-> <<v.csv_path, v.excel_path>>]

\* Lines 102-129: the guard and the validation.
StartProcessing ==
    /\ ui_pc = "idle"
    /\ Len(clicks) < MaxClicks
    /\ LET verdict == IF Busy(is_running) THEN "busy" ELSE Validation(view)
       IN /\ clicks' = Append(clicks, [running |-> is_running, verdict |-> verdict])
          /\ IF verdict = "ok"
             THEN ui_pc' = "set_running" /\ ui_args' = ThreadArgs(view)
             ELSE UNCHANGED <<ui_pc, ui_args>>
    /\ UNCHANGED <<is_running, view, threads, notView>>

\* Lines 132-134: is_running.set(True).
SetRunning ==
    /\ ui_pc = "set_running"
    /\ is_running' = TRUE
    /\ ui_pc' = "start_thread"
    /\ UNCHANGED <<view, ui_args, threads, clicks, notView>>

\* Lines 139-144: the thread is created and started; the handler returns.
StartThread ==
    /\ ui_pc = "start_thread"
    /\ threads' = Append(threads,
            [pc |-> "files", tasks |-> ui_args.tasks, terms |-> ui_args.terms,
             checked |-> ui_args.checked, files |-> <<"", "">>,
             success |-> FALSE])
    /\ ui_pc' = "idle"
    /\ ui_args' = NoArgs
    /\ UNCHANGED <<is_running, view, clicks, notView>>

\* Another handler of the UI thread changes a path or a flag.
EditView ==
    /\ ui_pc = "idle"
    /\ view' \in Views \ {view}
    /\ UNCHANGED <<is_running, ui_pc, ui_args, threads, clicks, notView>>

\* The flag is reset only after a run that succeeded.
RunningAfterWorkerOnSuccess(success) == ~success

\* The last statement of _run_in_thread: is_running.set(False).
RunningAfterWorker(success) == FALSE

\* A thread that returned: its arguments and locals are gone, what it
\* reported is kept as history.
Ended(success) ==
    [pc |-> "done", tasks |-> NoArgs.tasks, terms |-> NoArgs.terms,
     checked |-> NoArgs.checked, files |-> <<"", "">>, success |-> success]

\* _run_in_thread of thread t, one step: the paths are read, run_all_tasks
\* returns its pair, the message box is closed, the flag is reset.
Worker(t) ==
    /\ t \in DOMAIN threads
    /\ LET th == threads[t] IN
       CASE th.pc = "files" ->
              /\ threads' = [threads EXCEPT
                    ![t].files = <<view.csv_path, view.excel_path>>,
                    ![t].pc = "run"]
              /\ UNCHANGED is_running
         [] th.pc = "run" ->
              /\ \E success \in BOOLEAN :
                    threads' = [threads EXCEPT ![t].success = success,
                                               ![t].pc = "message"]
              /\ UNCHANGED is_running
         [] th.pc = "message" ->
              /\ threads' = [threads EXCEPT ![t].pc = "reset"]
              /\ UNCHANGED is_running
         [] th.pc = "reset" ->
              /\ is_running' = RunningAfterWorker(th.success)
              /\ threads' = [threads EXCEPT ![t] = Ended(th.success)]
         [] OTHER -> FALSE
    /\ UNCHANGED <<view, ui_pc, ui_args, clicks, notView>>

WorkerNext == \E t \in DOMAIN threads : Worker(t)

ViewNext == StartProcessing \/ SetRunning \/ StartThread \/ EditView \/ WorkerNext

(***************************************************************************)
(* Specifications                                                          *)
(***************************************************************************)
\* load_students_from_csv on a file of Files.
InitLoad ==
    /\ csv \in Files
    /\ df = <<>>
    /\ index = 0
    /\ ld_pc = "read"
    /\ ld_error = NoError
    /\ students = <<>>
    /\ status = <<>>
    /\ workbook = <<>>
    /\ terms = <<>>
    /\ tr_pc = "idle"
    /\ term_i = 1
    /\ subject_column_map = NoMap
    /\ other_column_map = NoMap
    /\ student_row_map = NoMap
    /\ next_new_student_row = 0
    /\ stu_i = 0
    /\ targets = <<>>
    /\ ws_before = <<>>
    /\ calls = <<>>
    /\ hd_ws = <<>>
    /\ resolved = <<>>
    /\ tasks = [transfer |-> FALSE, grades |-> FALSE, attendance |-> FALSE]
    /\ files = <<"", "">>
    /\ run_pc = "idle"
    /\ trace = <<>>
    /\ result = NoResult
    /\ progress = <<>>
    /\ mem_written = {}
    /\ file_written = {}
    /\ original_columns = <<>>
    /\ merged_cells = <<>>
    /\ builds = <<>>
    /\ is_running = FALSE
    /\ view = InitialView
    /\ ui_pc = "idle"
    /\ ui_args = NoArgs
    /\ threads = <<>>
    /\ clicks = <<>>

SpecLoad == InitLoad /\ [][LoadNext]_vars

\* transfer_service.run on a workbook, a list of terms and a list of records.
InitSheet ==
    /\ csv = [columns |-> <<>>, lines |-> <<>>, fault |-> "none"]
    /\ df = <<>>
    /\ index = 0
    /\ ld_pc = "idle"
    /\ ld_error = NoError
    /\ students \in SeqsUpTo(Records, MaxStudents)
    /\ status = <<>>
    /\ workbook \in {Workbook(present, sh) : present \in Present, sh \in Sheets}
    /\ terms \in SeqsUpTo(Terms, MaxTerms)
    /\ tr_pc = "start"
    /\ term_i = 1
    /\ subject_column_map = NoMap
    /\ other_column_map = NoMap
    /\ student_row_map = NoMap
    /\ next_new_student_row = 0
    /\ stu_i = 0
    /\ targets = <<>>
    /\ ws_before = <<>>
    /\ calls = <<>>
    /\ hd_ws = <<>>
    /\ resolved = <<>>
    /\ tasks = [transfer |-> FALSE, grades |-> FALSE, attendance |-> FALSE]
    /\ files = <<"", "">>
    /\ run_pc = "idle"
    /\ trace = <<>>
    /\ result = NoResult
    /\ progress = <<>>
    /\ mem_written = {}
    /\ file_written = {}
    /\ original_columns = <<>>
    /\ merged_cells = <<>>
    /\ builds = <<>>
    /\ is_running = FALSE
    /\ view = InitialView
    /\ ui_pc = "idle"
    /\ ui_args = NoArgs
    /\ threads = <<>>
    /\ clicks = <<>>

SpecSheet == InitSheet /\ [][SheetNext]_vars

\* _get_merged_cell_value at every column of a header row.
InitHeader ==
    /\ csv = [columns |-> <<>>, lines |-> <<>>, fault |-> "none"]
    /\ df = <<>>
    /\ index = 0
    /\ ld_pc = "idle"
    /\ ld_error = NoError
    /\ students = <<>>
    /\ status = <<>>
    /\ workbook = <<>>
    /\ terms = <<>>
    /\ tr_pc = "idle"
    /\ term_i = 1
    /\ subject_column_map = NoMap
    /\ other_column_map = NoMap
    /\ student_row_map = NoMap
    /\ next_new_student_row = 0
    /\ stu_i = 0
    /\ targets = <<>>
    /\ ws_before = <<>>
    /\ calls = <<>>
    /\ hd_ws \in HeaderRowSheets
    /\ resolved = <<>>
    /\ tasks = [transfer |-> FALSE, grades |-> FALSE, attendance |-> FALSE]
    /\ files = <<"", "">>
    /\ run_pc = "idle"
    /\ trace = <<>>
    /\ result = NoResult
    /\ progress = <<>>
    /\ mem_written = {}
    /\ file_written = {}
    /\ original_columns = <<>>
    /\ merged_cells = <<>>
    /\ builds = <<>>
    /\ is_running = FALSE
    /\ view = InitialView
    /\ ui_pc = "idle"
    /\ ui_args = NoArgs
    /\ threads = <<>>
    /\ clicks = <<>>

SpecHeader == InitHeader /\ [][HeaderNext]_vars

\* run_all_tasks with every choice of tasks.
InitRun ==
    /\ csv = [columns |-> <<>>, lines |-> <<>>, fault |-> "none"]
    /\ df = <<>>
    /\ index = 0
    /\ ld_pc = "idle"
    /\ ld_error = NoError
    /\ students = <<>>
    /\ status = <<>>
    /\ workbook = <<>>
    /\ terms = <<>>
    /\ tr_pc = "idle"
    /\ term_i = 1
    /\ subject_column_map = NoMap
    /\ other_column_map = NoMap
    /\ student_row_map = NoMap
    /\ next_new_student_row = 0
    /\ stu_i = 0
    /\ targets = <<>>
    /\ ws_before = <<>>
    /\ calls = <<>>
    /\ hd_ws = <<>>
    /\ resolved = <<>>
    /\ tasks \in TaskFlags
    /\ files \in Paths
    /\ run_pc = "load"
    /\ trace = <<>>
    /\ result = NoResult
    /\ progress = <<>>
    /\ mem_written = {}
    /\ file_written = {}
    /\ original_columns = <<>>
    /\ merged_cells = <<>>
    /\ builds = <<>>
    /\ is_running = FALSE
    /\ view = InitialView
    /\ ui_pc = "idle"
    /\ ui_args = NoArgs
    /\ threads = <<>>
    /\ clicks = <<>>

SpecRun == InitRun /\ [][RunNext]_vars

\* The summary builders on a list of records, the column labels of a file
\* and a workbook.
InitSummary ==
    /\ csv = [columns |-> <<>>, lines |-> <<>>, fault |-> "none"]
    /\ df = <<>>
    /\ index = 0
    /\ ld_pc = "idle"
    /\ ld_error = NoError
    /\ students \in SeqsUpTo(SummaryRecords, MaxStudents)
    /\ status = <<>>
    /\ \E b \in SummaryBooks : workbook = b.sheets /\ merged_cells = b.merged
    /\ terms = <<>>
    /\ tr_pc = "idle"
    /\ term_i = 1
    /\ subject_column_map = NoMap
    /\ other_column_map = NoMap
    /\ student_row_map = NoMap
    /\ next_new_student_row = 0
    /\ stu_i = 0
    /\ targets = <<>>
    /\ ws_before = <<>>
    /\ calls = <<>>
    /\ hd_ws = <<>>
    /\ resolved = <<>>
    /\ tasks = [transfer |-> FALSE, grades |-> FALSE, attendance |-> FALSE]
    /\ files = <<"", "">>
    /\ run_pc = "idle"
    /\ trace = <<>>
    /\ result = NoResult
    /\ progress = <<>>
    /\ mem_written = {}
    /\ file_written = {}
    /\ original_columns \in SummaryColumns
    /\ builds = <<>>
    /\ is_running = FALSE
    /\ view = InitialView
    /\ ui_pc = "idle"
    /\ ui_args = NoArgs
    /\ threads = <<>>
    /\ clicks = <<>>

SpecSummary == InitSummary /\ [][SummaryNext]_vars

\* The view model from construction, the user editing the view between clicks.
InitView ==
    /\ csv = [columns |-> <<>>, lines |-> <<>>, fault |-> "none"]
    /\ df = <<>>
    /\ index = 0
    /\ ld_pc = "idle"
    /\ ld_error = NoError
    /\ students = <<>>
    /\ status = <<>>
    /\ workbook = <<>>
    /\ terms = <<>>
    /\ tr_pc = "idle"
    /\ term_i = 1
    /\ subject_column_map = NoMap
    /\ other_column_map = NoMap
    /\ student_row_map = NoMap
    /\ next_new_student_row = 0
    /\ stu_i = 0
    /\ targets = <<>>
    /\ ws_before = <<>>
    /\ calls = <<>>
    /\ hd_ws = <<>>
    /\ resolved = <<>>
    /\ tasks = [transfer |-> FALSE, grades |-> FALSE, attendance |-> FALSE]
    /\ files = <<"", "">>
    /\ run_pc = "idle"
    /\ trace = <<>>
    /\ result = NoResult
    /\ progress = <<>>
    /\ mem_written = {}
    /\ file_written = {}
    /\ original_columns = <<>>
    /\ merged_cells = <<>>
    /\ builds = <<>>
    /\ is_running = FALSE
    /\ view = InitialView
    /\ ui_pc = "idle"
    /\ ui_args = NoArgs
    /\ threads = <<>>
    /\ clicks = <<>>

SpecView == InitView /\ [][ViewNext]_vars

\* The same with the scheduling of the threads: a worker thread that can
\* take a step takes it, and a handler that began runs to its end.
SpecViewFair ==
    /\ InitView
    /\ [][ViewNext]_vars
    /\ WF_vars(WorkerNext)
    /\ WF_vars(SetRunning \/ StartThread)

(***************************************************************************)
(* Properties of the loader (SpecLoad).                                    *)
(***************************************************************************)
\* The data rows of the file whose ID cell is non-blank after trimming.
NonBlankIdLines ==
    {p \in DOMAIN csv.lines :
        ~csv.lines[p].blank /\ Strip(csv.lines[p].cells[student_id_col]) # <<>>}

\* C1: when the load returns, there is exactly one record per data row
\* whose ID cell is non-blank after trimming; a row whose ID cell is empty
\* or whitespace-only gives no record.
C1_OneRecordPerNonBlankId ==
    ld_pc = "returned" => Len(students) = Cardinality(NonBlankIdLines)

\* C10: a row-processing error carries the 1-based line number the failing
\* row has in the file (the first data row is line 5).
C10_ErrorNamesFileLine ==
    (ld_pc = "raised" /\ ld_error.what = "row") =>
        ld_error.line = df[index + 1].line

\* The rows of the DataFrame the loop does not pass over, in order.
KeptRows ==
    SelectSeq(df, LAMBDA r : ~SkipsRow(PyStr(r.cells[student_id_col])))

\* The positions in df of the rows whose processing fails.
FailingRows ==
    {j \in DOMAIN df : df[j].bad /\ ~SkipsRow(PyStr(df[j].cells[student_id_col]))}

FirstFailingRow == CHOOSE j \in FailingRows : \A k \in FailingRows : j <= k

\* C11: the load is all-or-nothing: when a data row fails the load raises
\* at that row, no later row is processed and nothing runs after the raise,
\* and the caller receives no record list.
C11_LoadAllOrNothing ==
    /\ [](/\ ld_pc = "returned" => FailingRows = {}
          /\ (ld_pc \in {"rows", "raised"} /\ FailingRows # {}) =>
                index < FirstFailingRow
          /\ (ld_pc = "raised" /\ ld_error.what = "row") =>
                /\ FailingRows # {}
                /\ index + 1 = FirstFailingRow
                /\ LoadResult = NoReturn)
    /\ [][ld_pc # "raised"]_vars

\* A row failed after a record had been built and before the last row.
C11_Witness ==
    /\ ld_pc = "raised"
    /\ ld_error.what = "row"
    /\ Len(students) = 1
    /\ index + 1 < Len(df)
    /\ LoadResult.students = <<>>

\* The columns of the file other than the ID column and the name column
\* (the first whose second-level label is the name keyword once trimmed).
OtherPositions ==
    {c \in DOMAIN csv.columns :
        /\ c # 1
        /\ ~(/\ Strip(csv.columns[c][2]) = KEY_STUDENT_NAME
             /\ \A n \in 1..(c - 1) : Strip(csv.columns[n][2]) # KEY_STUDENT_NAME)}

\* The class of a column by its labels, in the order of precedence.
ClassOf(label) ==
    IF label[2] \in Range(KEY_TEST_TYPES) THEN "score"
    ELSE IF label[2] \in KEY_ATTENDANCE THEN "attendance"
    ELSE IF label[1] \in KEY_OTHER_COLS THEN "aggregate"
    ELSE "none"

ScenarioAFile ==
    [columns |-> ColumnsA, lines |-> <<Row(<<"S", "1">>, <<"Taro">>, FALSE)>>,
     fault |-> "none"]

\* C12: every column other than the ID and the name column is stored by
\* precedence: a test-type second label under scores[(first, second)], else
\* an attendance second label under attendance[(first, second)], else an
\* aggregate first label under summary_data[first], else nowhere; the file
\* of scenario A gives one record with scores {(Math, honshi): 80,
\* (Math, hyo): B} and nothing else.
C12_ClassifiedByPrecedence ==
    /\ ld_pc = "returned" =>
        /\ Len(students) = Len(KeptRows)
        /\ \A i \in DOMAIN students :
            /\ DOMAIN students[i].scores =
                {csv.columns[c] : c \in {d \in OtherPositions :
                                            ClassOf(csv.columns[d]) = "score"}}
            /\ DOMAIN students[i].attendance =
                {csv.columns[c] : c \in {d \in OtherPositions :
                                            ClassOf(csv.columns[d]) = "attendance"}}
            /\ DOMAIN students[i].summary_data =
                {csv.columns[c][1] : c \in {d \in OtherPositions :
                                            ClassOf(csv.columns[d]) = "aggregate"}}
            /\ \A c \in OtherPositions :
                LET label == csv.columns[c]
                    v == IF PdIsNa(KeptRows[i].cells[c]) THEN Str(<<>>)
                         ELSE KeptRows[i].cells[c]
                IN  CASE ClassOf(label) = "score" -> students[i].scores[label] = v
                      [] ClassOf(label) = "attendance" -> students[i].attendance[label] = v
                      [] ClassOf(label) = "aggregate" ->
                            students[i].summary_data[label[1]] = v
                      [] OTHER -> TRUE
    /\ (ld_pc = "returned" /\ csv = ScenarioAFile) =>
        students = << [id |-> <<"S", "1">>, name |-> <<"Taro">>,
                       scores |-> [key \in {<<<<"Math">>, <<"hon", "shi">> >>,
                                            <<<<"Math">>, <<"hyo">> >>} |->
                                    IF key[2] = <<"hyo">> THEN Str(<<"B">>)
                                    ELSE IntVal(80)],
                       attendance |-> <<>>,
                       summary_data |-> <<>>] >>

\* A record was loaded from a file whose columns carry an aggregate-field
\* name over a test type and over an attendance type.
C12_Witness ==
    /\ ld_pc = "returned"
    /\ csv.columns = ColumnsPrecedence
    /\ Len(students) = 1
    /\ DOMAIN students[1].scores = {<<<<"sou", "ten">>, <<"hon", "shi">> >>}
    /\ DOMAIN students[1].attendance = {<<<<"sou", "ten">>, <<"ketsu">> >>}
    /\ DOMAIN students[1].summary_data = {}
    /\ students[1].scores[<<<<"sou", "ten">>, <<"hon", "shi">> >>] = IntVal(80)

\* The load is past its first steps on a file that could be read.
PastHeaderChecks == ld_pc # "read" /\ csv.fault = "none"

\* The load failed on the name column before any row was processed.
FailsOnNameColumn ==
    /\ ld_pc = "raised"
    /\ ld_error.what = "name_column"
    /\ index = 0
    /\ students = <<>>
    /\ LoadResult = NoReturn

\* C13 as stated: the name column is the column whose second-level label
\* equals the name keyword; without such a column the load fails with a
\* missing-column error before any row is processed and returns nothing.
C13_NameColumnByExactLabel ==
    PastHeaderChecks =>
        IF \E c \in DOMAIN csv.columns : csv.columns[c][2] = KEY_STUDENT_NAME
        THEN ld_error.what # "name_column"
        ELSE FailsOnNameColumn

\* C13, amended: the name column is the first column whose second-level
\* label equals the name keyword once surrounding whitespace is trimmed;
\* every record's name is read from it; without such a column the load
\* fails with a missing-column error before any row is processed and
\* returns nothing.
C13_NameColumnByTrimmedLabel ==
    PastHeaderChecks =>
        LET hits == {c \in DOMAIN csv.columns :
                        Strip(csv.columns[c][2]) = KEY_STUDENT_NAME}
        IN  IF hits # {}
            THEN /\ ld_error.what # "name_column"
                 /\ ld_pc = "returned" =>
                        \A i \in DOMAIN students :
                            LET v == KeptRows[i].cells[
                                        CHOOSE c \in hits : \A d \in hits : c <= d]
                            IN  students[i].name = IF PdIsNa(v) THEN <<>> ELSE v.s
            ELSE FailsOnNameColumn

\* A file with data rows and no name column was refused.
C13_Witness ==
    /\ FailsOnNameColumn
    /\ csv.columns = ColumnsNoName
    /\ \E p \in DOMAIN csv.lines : ~csv.lines[p].blank

(***************************************************************************)
(* Properties of the transcription (SpecSheet).                            *)
(***************************************************************************)
\* A blank cell value: no value, or a text that is empty after trimming.
Blank(v) == v.k = "none" \/ (v.k = "str" /\ Strip(v.s) = <<>>)

\* The populated data rows: rows >= 5 with a non-blank column 1.
PopulatedRows(ws) ==
    {r \in 5..max_row(ws) : ~Blank(CellValue(ws, r, 1))}

\* The rows of ws, from 5 on, whose column-1 value reads as id.
RowsOf(ws, id) ==
    {r \in 5..max_row(ws) :
        Truthy(CellValue(ws, r, 1)) /\ ValueStr(CellValue(ws, r, 1)) = id}

\* The number of records before position i whose ID is not on the sheet.
NewBefore(ws, i) ==
    Cardinality({j \in 1..(i - 1) : RowsOf(ws, students[j].id) = {}})

ScenarioDSheet == Sheet(HeaderMain, <<Str(S1), Str(S2), Str(S3)>>)

\* One record with an ID of the sheet and one with an ID that is not on it.
OneMatchingOneNew(ws) ==
    /\ Len(students) = 2
    /\ Cardinality({i \in 1..2 : RowsOf(ws, students[i].id) # {}}) = 1

\* C2: in input order, a record whose ID is indexed is written to the row
\* that holds that ID (the row keeps its ID), a record whose ID is not
\* indexed is written to the cursor row and the cursor advances by one; on
\* a sheet with three students on rows 5-7, one matching and one new record
\* leave exactly 4 populated rows and the matching student on its row.
C2_ReconcilesInInputOrder ==
    /\ tr_pc = "loop" =>
        /\ \A i \in DOMAIN targets :
            IF RowsOf(ws_before, students[i].id) # {}
            THEN /\ targets[i] \in RowsOf(ws_before, students[i].id)
                 /\ CellValue(workbook[SHEET_NAME_GRADES_TEMPLATE(terms[term_i])],
                              targets[i], 1) = Str(students[i].id)
            ELSE targets[i] = InitialCursor(student_row_map) + NewBefore(ws_before, i)
        /\ next_new_student_row =
                InitialCursor(student_row_map) + NewBefore(ws_before, Len(targets) + 1)
    /\ \A n \in DOMAIN calls :
        (calls[n].outcome = "done" /\ calls[n].before = ScenarioDSheet
            /\ OneMatchingOneNew(ScenarioDSheet)) =>
            /\ Cardinality(PopulatedRows(calls[n].after)) = 4
            /\ \A i \in 1..2 :
                RowsOf(ScenarioDSheet, students[i].id) # {} =>
                    /\ RowsOf(calls[n].after, students[i].id)
                            = RowsOf(ScenarioDSheet, students[i].id)
                    /\ calls[n].targets[i] \in RowsOf(ScenarioDSheet, students[i].id)

\* Scenario D has run: S9 was appended on row 8 and S1 updated on row 5.
C2_Witness ==
    \E n \in DOMAIN calls :
        /\ calls[n].outcome = "done"
        /\ calls[n].before = ScenarioDSheet
        /\ students = <<Student(S9, IntVal(80)), Student(S1, IntVal(80))>>
        /\ calls[n].targets = <<8, 5>>
        /\ PopulatedRows(calls[n].after) = {5, 6, 7, 8}

\* C3: a second run of update_grades_sheet on the same sheet with the same
\* records leaves the number of populated data rows of the first run and
\* targets only rows the first run left populated.
C3_IdempotentRowCount ==
    \A m \in DOMAIN calls : \A n \in DOMAIN calls :
        (m < n /\ calls[m].term = calls[n].term
            /\ calls[m].outcome = "done" /\ calls[n].outcome = "done") =>
            /\ Cardinality(PopulatedRows(calls[n].after))
                    = Cardinality(PopulatedRows(calls[m].after))
            /\ \A i \in DOMAIN calls[n].targets :
                    calls[n].targets[i] \in PopulatedRows(calls[m].after)

\* Two runs on one sheet, the first of which appended a row that the
\* second found again.
C3_Witness ==
    \E m \in DOMAIN calls : \E n \in DOMAIN calls :
        /\ m < n
        /\ calls[m].term = calls[n].term
        /\ calls[m].outcome = "done"
        /\ calls[n].outcome = "done"
        /\ calls[n].before = calls[m].after
        /\ \E i \in DOMAIN calls[n].targets :
            /\ calls[n].targets[i] \notin PopulatedRows(calls[m].before)
            /\ calls[n].targets[i] = calls[m].targets[i]

\* The column the column map resolves a (subject, category) pair to, or 0.
ResolvedCol(smap, key) == Get(smap, <<Str(key[1]), Str(key[2])>>)

\* No later record of the list targets the row of record i.
LastToTarget(tg, i) == \A j \in DOMAIN tg : j > i => tg[j] # tg[i]

\* The cells of a completed call that differ from what they were before.
ChangedCells(c) ==
    {p \in DOMAIN c.after : p \notin DOMAIN c.before \/ c.after[p] # c.before[p]}

\* The columns a call may write in the row of record i: ID, name, the
\* resolved score columns and the aggregate columns.
WritableCols(smap, omap, i) ==
    {1, 2}
    \cup ({ResolvedCol(smap, key) : key \in DOMAIN students[i].scores} \ {0})
    \cup Range(omap)

\* Every change of a call is in the row of a record and in a column that
\* record may write: an unresolved pair writes nothing.
OnlyResolvedWrites(c, smap, omap) ==
    \A p \in ChangedCells(c) :
        \E i \in DOMAIN c.targets :
            p[1] = c.targets[i] /\ p[2] \in WritableCols(smap, omap, i)

\* The cell of record i for a resolved pair holds the record's value.
ValueHeld(c, smap, i, key) ==
    CellValue(c.after, c.targets[i], ResolvedCol(smap, key)) = students[i].scores[key]

\* The last completed call of update_grades_sheet, if there is one.
LastCallDone ==
    calls # <<>> /\ calls[Len(calls)].outcome = "done" /\ tr_pc # "loop"

\* C7 as stated: after a completed call, for every record and every
\* resolved pair of its score map the cell at (target row, column) holds
\* the record's value, and unresolved pairs write nothing.
C7_EveryRecordValueHeld ==
    LastCallDone =>
        LET c == calls[Len(calls)]
            smap == map_subject_columns(c.before)
            omap == map_other_columns(c.before)
        IN  /\ \A i \in DOMAIN c.targets : \A key \in DOMAIN students[i].scores :
                    ResolvedCol(smap, key) # 0 => ValueHeld(c, smap, i, key)
            /\ OnlyResolvedWrites(c, smap, omap)

\* C7, amended: the cell holds the record's value for every record that is
\* the last of the list to target its row and every resolved pair whose
\* column is not also an aggregate column; unresolved pairs write nothing.
C7_LastRecordValueHeld ==
    LastCallDone =>
        LET c == calls[Len(calls)]
            smap == map_subject_columns(c.before)
            omap == map_other_columns(c.before)
        IN  /\ \A i \in DOMAIN c.targets : \A key \in DOMAIN students[i].scores :
                    (/\ LastToTarget(c.targets, i)
                     /\ ResolvedCol(smap, key) # 0
                     /\ ResolvedCol(smap, key) \notin Range(omap)) =>
                        ValueHeld(c, smap, i, key)
            /\ OnlyResolvedWrites(c, smap, omap)

\* Two records with one ID and different values were written to one row,
\* which holds the later value; the pair (Sci, honshi) is unresolved.
C7_Witness ==
    \E n \in DOMAIN calls :
        /\ calls[n].outcome = "done"
        /\ students = <<Student(S1, IntVal(80)), Student(S1, IntVal(90))>>
        /\ calls[n].targets = <<5, 5>>
        /\ CellValue(calls[n].after, 5, 3) = IntVal(90)
        /\ CellValue(calls[n].before, 5, 3) = IntVal(50)
        /\ ResolvedCol(map_subject_columns(calls[n].before), <<<<"Sci">>, HONSHI>>) = 0

\* The text is =COUNT(...).
IsCountFormula(v) ==
    /\ v.k = "str"
    /\ Len(v.s) >= 8
    /\ SubSeq(v.s, 1, 7) = <<"=", "C", "O", "U", "N", "T", "(">>
    /\ v.s[Len(v.s)] = ")"

\* The pieces of a text between its commas.
RECURSIVE SplitCommas(_)
SplitCommas(t) ==
    IF \E i \in DOMAIN t : t[i] = ","
    THEN LET i == CHOOSE j \in DOMAIN t :
                    t[j] = "," /\ \A k \in 1..(j - 1) : t[k] # ","
         IN  {SubSeq(t, 1, i - 1)} \cup SplitCommas(SubSeq(t, i + 1, Len(t)))
    ELSE {t}

\* The cell addresses a COUNT formula refers to.
FormulaRefs(v) == SplitCommas(SubSeq(v.s, 8, Len(v.s) - 1))

\* The columns the subject map of ws assigns to the retest category.
RetestColumnsOf(ws) ==
    {c \in Range(map_subject_columns(ws)) : CellValue(ws, 4, c) = Str(SAISHI)}

\* The cell of row r in the retest-count column holds a formula over the
\* cells of row r in the retest columns.
HoldsRetestFormula(c, r) ==
    LET v == CellValue(c.after, r, Get(map_other_columns(c.before), RETEST_COUNT))
    IN  /\ IsCountFormula(v)
        /\ FormulaRefs(v) =
                {get_column_letter(col) \o IntStr(r) : col \in RetestColumnsOf(c.before)}

\* The last completed call ran on a sheet with a retest-count column.
LastCallCounts ==
    LastCallDone /\ Get(map_other_columns(calls[Len(calls)].before), RETEST_COUNT) # 0

\* C14 as stated: for every record written, when the aggregate map resolves
\* the retest-count field to a column, the cell there in the target row
\* holds a formula whose references are exactly the cells of that row in
\* the retest columns.
C14_FormulaAlways ==
    LastCallCounts =>
        \A i \in DOMAIN calls[Len(calls)].targets :
            HoldsRetestFormula(calls[Len(calls)], calls[Len(calls)].targets[i])

\* C14, amended: the formula is written when the retest-count field is
\* resolved and the subject map assigns at least one column to the retest
\* category; with no retest column the cell is left as it was.
C14_FormulaWhenRetestColumns ==
    LastCallCounts =>
        LET c == calls[Len(calls)]
            col == Get(map_other_columns(c.before), RETEST_COUNT)
        IN  \A i \in DOMAIN c.targets :
                IF RetestColumnsOf(c.before) # {}
                THEN HoldsRetestFormula(c, c.targets[i])
                ELSE CellValue(c.after, c.targets[i], col)
                        = CellValue(c.before, c.targets[i], col)

\* A record was written to row 6 of the sheet with two retest columns and
\* the formula counts both; the pair (Math, saishi) of the record is in D.
C14_Witness ==
    /\ LastCallCounts
    /\ calls[Len(calls)].before = Sheet(HeaderRetest, <<Str(S1)>>)
    /\ calls[Len(calls)].targets = <<6>>
    /\ CellValue(calls[Len(calls)].after, 6, 6)
            = Str(<<"=", "C", "O", "U", "N", "T", "(", "D", "6", ",", "E", "6", ")">>)

\* A step of the record loop of update_grades_sheet.
WritesRecord == tr_pc = "loop" /\ stu_i <= Len(students) /\ stu_i' = stu_i + 1

\* C15: for every record and every entry of its aggregate map other than
\* the retest count, when the sheet's aggregate map resolves the field the
\* record's value is written to that column of the target row; the record's
\* retest count is never written: its cell gets the formula or is left as
\* it was.
C15_AggregatesWritten ==
    [][WritesRecord =>
        LET name == SHEET_NAME_GRADES_TEMPLATE(terms[term_i])
            omap == map_other_columns(ws_before)
            row == targets'[stu_i]
            rc == Get(omap, RETEST_COUNT)
        IN  /\ \A key \in DOMAIN students[stu_i].summary_data \ {RETEST_COUNT} :
                    Get(omap, key) # 0 =>
                        CellValue(workbook'[name], row, Get(omap, key))
                            = students[stu_i].summary_data[key]
            /\ rc # 0 =>
                    \/ IsCountFormula(CellValue(workbook'[name], row, rc))
                    \/ CellValue(workbook'[name], row, rc)
                            = CellValue(workbook[name], row, rc)
    ]_vars

\* A record's total score was written on a sheet with a retest-count column
\* and no retest column, and the retest-count cell is still empty.
C15_Witness ==
    /\ LastCallDone
    /\ calls[Len(calls)].before = Sheet(HeaderNoRetest, <<Str(S1)>>)
    /\ calls[Len(calls)].targets = <<6>>
    /\ CellValue(calls[Len(calls)].after, 6, 5) = IntVal(80)
    /\ CellValue(calls[Len(calls)].after, 6, 4) = None

\* update_grades_sheet is about to run on a term whose sheet is in state s.
AtSheet(s) ==
    /\ tr_pc = "term"
    /\ term_i <= Len(terms)
    /\ LET name == SHEET_NAME_GRADES_TEMPLATE(terms[term_i])
       IN  CASE s = "missing" -> name \notin DOMAIN workbook
             [] s = "short" -> name \in DOMAIN workbook /\ max_row(workbook[name]) < 4
             [] OTHER -> FALSE

\* The call returns at once with warning w: nothing of the workbook
\* changes, no map is built, the loop goes on with the next term.
SkipsWith(w) ==
    /\ workbook' = workbook
    /\ subject_column_map' = subject_column_map
    /\ other_column_map' = other_column_map
    /\ student_row_map' = student_row_map
    /\ next_new_student_row' = next_new_student_row
    /\ status' = Append(status, Msg(w, SHEET_NAME_GRADES_TEMPLATE(terms[term_i])))
    /\ tr_pc' = "term"
    /\ term_i' = term_i + 1

\* C8: on a term sheet that exists and has fewer than 4 rows,
\* update_grades_sheet emits a warning, raises nothing, builds no column
\* map and writes no cell.
C8_ShortSheetSkipped == [][AtSheet("short") => SkipsWith("warn_short")]_vars

\* A call on a sheet of three rows has returned.
C8_Witness ==
    \E n \in DOMAIN calls :
        /\ calls[n].outcome = "short"
        /\ max_row(calls[n].before) = 3
        /\ status[Len(status)].m = "warn_short"

\* C9: on a term whose sheet is absent, update_grades_sheet emits a
\* warning, raises nothing and changes nothing, and transfer_service.run
\* goes through every term of the list, in order.
C9_MissingSheetSkipped ==
    /\ [][AtSheet("missing") => SkipsWith("warn_missing")]_vars
    /\ [](tr_pc = "done" /\ terms # <<>> =>
            /\ Len(calls) = Len(terms)
            /\ \A i \in DOMAIN terms : calls[i].term = terms[i])

\* The run is over; the sheet of the first term was absent and the second
\* term was transcribed.
C9_Witness ==
    /\ tr_pc = "done"
    /\ Len(calls) = 2
    /\ calls[1].outcome = "missing"
    /\ calls[2].outcome = "done"
    /\ calls[2].targets # <<>>

(***************************************************************************)
(* Properties of the merged-cell resolution (SpecHeader).                  *)
(***************************************************************************)
\* The columns of row 1, up to c, whose cell has a value.
ValuedUpTo(ws, c) == {d \in 1..c : CellValue(ws, 1, d) # None}

\* A subject name at column n with cells without value at n + 1 and n + 2.
MergedAt(ws, n) ==
    /\ CellValue(ws, 1, n).k = "str"
    /\ CellValue(ws, 1, n).s # <<>>
    /\ CellValue(ws, 1, n + 1) = None
    /\ CellValue(ws, 1, n + 2) = None

\* C6: a subject name at column N of row 1 with blank cells at N+1 and N+2
\* resolves to that name at N, N+1 and N+2; a cell with a value resolves to
\* it, a blank cell to the nearest cell with a value on its left, and to
\* nothing when there is none.
C6_MergedHeaderResolves ==
    /\ \A c \in DOMAIN resolved :
        IF ValuedUpTo(hd_ws, c) = {}
        THEN resolved[c] = None
        ELSE resolved[c] = CellValue(hd_ws, 1, MaxOf(ValuedUpTo(hd_ws, c), 0))
    /\ \A n \in DOMAIN resolved :
        (n + 2 \in DOMAIN resolved /\ MergedAt(hd_ws, n)) =>
            /\ resolved[n] = CellValue(hd_ws, 1, n)
            /\ resolved[n + 1] = CellValue(hd_ws, 1, n)
            /\ resolved[n + 2] = CellValue(hd_ws, 1, n)

\* A name merged over columns 2-4, right of another name, has been resolved
\* at each of its columns, and a leading blank cell to nothing.
C6_Witness ==
    /\ Len(resolved) = 4
    /\ CellValue(hd_ws, 1, 1) = Str(<<"Eng">>)
    /\ MergedAt(hd_ws, 2)
    /\ resolved = <<Str(<<"Eng">>), Str(<<"Math">>), Str(<<"Math">>), Str(<<"Math">>)>>

(***************************************************************************)
(* Properties of the coordinator (SpecRun).                                *)
(***************************************************************************)
\* The positions of the trace at which save was called.
SaveCalls == {i \in DOMAIN trace : trace[i].step = "save"}

\* The positions of the trace at which a step raised.
Raises == {i \in DOMAIN trace : trace[i].out # Returned}

\* The steps that run before the save: the load, the open, the selected tasks.
StepsBeforeSave ==
    {"load", "open"} \cup {t \in {"transfer", "grades", "attendance"} : Selected(tasks, t)}

\* C4: save is called at most once, and only after the load, the open and
\* every selected task have returned without raising; when one of them
\* raises save is not called and nothing reaches the file.
C4_SaveOnceAfterAllSteps ==
    /\ Cardinality(SaveCalls) <= 1
    /\ \A i \in SaveCalls :
        /\ \A j \in 1..(i - 1) : trace[j].out = Returned
        /\ \A st \in StepsBeforeSave : \E j \in 1..(i - 1) : trace[j].step = st
    /\ (\E j \in Raises : trace[j].step # "save") =>
        (SaveCalls = {} /\ file_written = {})
    /\ file_written # {} =>
        \E i \in SaveCalls : trace[i].out = Returned /\ file_written = mem_written

\* A task wrote to the workbook in memory, a later task raised, and the run
\* returned without a save.
C4_Witness ==
    /\ run_pc = "returned"
    /\ "transfer" \in mem_written
    /\ trace[Len(trace)].step = "grades"
    /\ trace[Len(trace)].out # Returned
    /\ SaveCalls = {}
    /\ file_written = {}
    /\ original_columns = <<>>
    /\ merged_cells = <<>>
    /\ builds = <<>>

\* The message reports the exception: its text, or the memory text.
Reports(msg, e) ==
    IF e.cls = "MemoryError" THEN "memory shortage" \in Range(msg)
    ELSE e.text \in Range(msg)

\* C5: no exception leaves run_all_tasks; when a step raises, it returns
\* (False, message), the message is reported through status_callback and
\* no later step runs; it returns (True, message naming the Excel path)
\* only when every step, save included, has returned.
C5_NoExceptionEscapes ==
    /\ run_pc # "escaped"
    /\ Cardinality(Raises) <= 1
    /\ \A j \in Raises :
        /\ j = Len(trace)
        /\ run_pc = "returned"
        /\ result.returned
        /\ ~result.ok
        /\ Reports(result.msg, trace[j].out)
        /\ status[Len(status)].m = "failure"
        /\ Reports(status[Len(status)].sheet, trace[j].out)
    /\ (run_pc = "returned" /\ Raises = {}) =>
        /\ result.returned
        /\ result.ok
        /\ files[2] \in Range(result.msg)
    /\ (result.returned /\ result.ok) =>
        /\ Raises = {}
        /\ \A st \in StepsBeforeSave \cup {"save"} :
                \E j \in DOMAIN trace : trace[j].step = st

\* A task raised an exception of a class no except clause names, and the
\* run returned (False, message) with the exception's text.
C5_Witness ==
    /\ run_pc = "returned"
    /\ trace[Len(trace)] =
          [step |-> "grades", out |-> Exc("AttributeError", "grades"),
           cause |-> [place |-> "task", cls |-> "AttributeError"]]
    /\ result = [returned |-> TRUE, ok |-> FALSE,
                 msg |-> <<"serious error, details:", "grades">>]

\* The steps at which memory ran out: MemoryError arose at a place of them.
MemoryFailures == {i \in DOMAIN trace : trace[i].cause.cls = "MemoryError"}

\* C20: whenever MemoryError arises inside a step (in read_csv, in the
\* processing of a row, in load_workbook, in a task or in workbook.save),
\* run_all_tasks returns the memory message and reports the memory message
\* through status_callback, not the message of the handled group or of the
\* catch-all.
C20_MemoryErrorReportedAsMemory ==
    \A i \in MemoryFailures :
        /\ result = [returned |-> TRUE, ok |-> FALSE, msg |-> <<"memory shortage">>]
        /\ status[Len(status)] =
              Msg("failure", <<"fatal error:", "memory shortage">>)

(***************************************************************************)
(* Properties of the summary builders (SpecSummary).                       *)
(***************************************************************************)
LastBuild == builds[Len(builds)]

\* The last call was of this builder.
Built(kind) == builds # <<>> /\ LastBuild.kind = kind

\* The columns of a worksheet row that hold a cell, and the rows that do.
RowCells(ws, r) == {p[2] : p \in {q \in DOMAIN ws : q[1] = r}}
RowsHeld(ws) == {p[1] : p \in DOMAIN ws}

\* The positions of the grade columns, the subjects that have one, the
\* position of the first grade column of a subject and the rank of the
\* subject by that position.
GradePositions ==
    {c \in DOMAIN original_columns : original_columns[c][2] = KEY_GRADE}

GradeSubjects == {original_columns[c][1] : c \in GradePositions}

FirstGradePosition(s) ==
    CHOOSE c \in GradePositions :
        /\ original_columns[c][1] = s
        /\ \A e \in GradePositions : original_columns[e][1] = s => c <= e

SubjectRank(s) ==
    1 + Cardinality({t \in GradeSubjects :
                        FirstGradePosition(t) < FirstGradePosition(s)})

\* The sheet has a row made of ID, name and one value per subject.
GradeRowIs(ws, r, id, name, scores) ==
    /\ RowCells(ws, r) = 1..(2 + Cardinality(GradeSubjects))
    /\ ws[<<r, 1>>] = id
    /\ ws[<<r, 2>>] = name
    /\ \A s \in GradeSubjects : ws[<<r, 2 + SubjectRank(s)>>] = scores[s]

\* C16: after create_grade_summary on columns with a grade column, the
\* grade sheet has the header [ID, name] followed by the subjects that have
\* a grade column, each once, in the order of their first grade column, and
\* below it exactly one row per record, in record order, of 2 + (number of
\* subjects) cells: ID, name and the record's score at (subject, grade
\* keyword), the empty string where the record has none.  Without a grade
\* column the builder leaves the workbook as it was.
C16_GradeSheetRows ==
    Built("grade") =>
        IF GradeSubjects = {}
        THEN workbook = LastBuild.before
        ELSE /\ SHEET_NAME_GRADE_SUMMARY \in DOMAIN workbook
             /\ LET ws == workbook[SHEET_NAME_GRADE_SUMMARY]
                IN  /\ RowsHeld(ws) = 1..(Len(students) + 1)
                    /\ GradeRowIs(ws, 1, Str(LabelId), Str(LabelName),
                                  [s \in GradeSubjects |-> Str(s)])
                    /\ \A i \in DOMAIN students :
                         GradeRowIs(ws, i + 1, Str(students[i].id),
                            Str(students[i].name),
                            [s \in GradeSubjects |->
                                IF <<s, KEY_GRADE>> \in DOMAIN students[i].scores
                                THEN students[i].scores[<<s, KEY_GRADE>>]
                                ELSE Str(<<>>)])

\* Scenario B with two records: the header is [ID, name, Math] and each
\* data row has one grade cell.
C16_Witness ==
    /\ Built("grade")
    /\ original_columns = ColumnsB
    /\ Len(students) = 2
    /\ SHEET_NAME_GRADE_SUMMARY \in DOMAIN workbook
    /\ LET ws == workbook[SHEET_NAME_GRADE_SUMMARY]
       IN  /\ ws[<<1, 3>>] = Str(Math)
           /\ \A r \in 1..3 : RowCells(ws, r) = 1..3

\* The positions of the attendance columns, and the position of the j-th.
AttendancePositions ==
    {c \in DOMAIN original_columns : original_columns[c][2] \in KEY_ATTENDANCE}

NthAttendance(j) ==
    CHOOSE c \in AttendancePositions :
        Cardinality({e \in AttendancePositions : e < c}) = j - 1

\* The last column of the attendance sheet and the row-1 label of a column
\* from the third on: the subject of the attendance column it stands for.
LastSheetColumn == 2 + Cardinality(AttendancePositions)
Row1Label(c) == original_columns[NthAttendance(c - 2)][1]

\* The maximal runs of equal adjacent row-1 labels, of more than one column.
MaximalRuns ==
    {run \in (3..LastSheetColumn) \X (3..LastSheetColumn) :
        /\ run[1] < run[2]
        /\ \A c \in run[1]..run[2] : Row1Label(c) = Row1Label(run[1])
        /\ run[1] = 3 \/ Row1Label(run[1] - 1) # Row1Label(run[1])
        /\ run[2] = LastSheetColumn \/ Row1Label(run[2] + 1) # Row1Label(run[2])}

AttendanceSheetMerges == MergedOf(merged_cells, SHEET_NAME_ATTENDANCE_SUMMARY)

\* C17: after create_attendance_summary on columns with an attendance
\* column, the merged ranges of the attendance sheet are exactly the maximal
\* runs of equal adjacent row-1 labels longer than one column, between the
\* third column and the last: each over its full extent in row 1, no two
\* overlapping, none reaching column 1 or 2, and no range holding two
\* columns that are not joined by equal labels all the way.
C17_MergesAreMaximalRuns ==
    (Built("attendance") /\ AttendancePositions # {}) =>
        /\ AttendanceSheetMerges =
              {MergedRange(1, run[1], run[2]) : run \in MaximalRuns}
        /\ \A a \in AttendanceSheetMerges :
              /\ a.from >= 3
              /\ a.to > a.from
              /\ \A b \in AttendanceSheetMerges :
                    a # b => (a.to < b.from \/ b.to < a.from)

\* Scenario C: columns 3-4 (Math, Math) are merged and column 5 (Eng) is
\* not.
C17_Witness ==
    /\ Built("attendance")
    /\ original_columns = ColumnsC
    /\ AttendanceSheetMerges = {MergedRange(1, 3, 4)}
    /\ LET ws == workbook[SHEET_NAME_ATTENDANCE_SUMMARY]
       IN  /\ ws[<<1, 3>>] = Str(Math)
           /\ ws[<<1, 4>>] = None
           /\ ws[<<1, 5>>] = Str(Eng)

\* The value row 1 shows at a column: a cell inside a merged range shows the
\* value of the first cell of the range.
ShownInRow1(ws, c) ==
    IF \E rg \in AttendanceSheetMerges : c \in rg.from..rg.to
    THEN ws[<<1, (CHOOSE rg \in AttendanceSheetMerges : c \in rg.from..rg.to).from>>]
    ELSE ws[<<1, c>>]

\* C18: after create_attendance_summary on columns with an attendance
\* column, the sheet has one column per attendance pair of the original
\* columns, in their order, repeated subjects included: row 1 shows the
\* subject-name label, the empty string and the subject of each pair (a
\* merged cell showing the label of its range), row 2 holds ID, name and the
\* display label of each pair's category, and rows 3 on are one row per
\* record, in record order: ID, name and the record's attendance value at
\* each pair, the empty string where the record has none.
C18_AttendanceSheetRows ==
    (Built("attendance") /\ AttendancePositions # {}) =>
        /\ SHEET_NAME_ATTENDANCE_SUMMARY \in DOMAIN workbook
        /\ LET ws == workbook[SHEET_NAME_ATTENDANCE_SUMMARY]
               pair(c) == original_columns[NthAttendance(c - 2)]
           IN  /\ RowsHeld(ws) = 1..(Len(students) + 2)
               /\ \A r \in RowsHeld(ws) : RowCells(ws, r) = 1..LastSheetColumn
               /\ ws[<<1, 1>>] = Str(LabelSubject)
               /\ ws[<<1, 2>>] = Str(<<>>)
               /\ ws[<<2, 1>>] = Str(LabelId)
               /\ ws[<<2, 2>>] = Str(LabelName)
               /\ \A c \in 3..LastSheetColumn :
                    /\ ShownInRow1(ws, c) = Str(pair(c)[1])
                    /\ ws[<<2, c>>] = Str(attendance_map[pair(c)[2]])
               /\ \A i \in DOMAIN students :
                    /\ ws[<<i + 2, 1>>] = Str(students[i].id)
                    /\ ws[<<i + 2, 2>>] = Str(students[i].name)
                    /\ \A c \in 3..LastSheetColumn :
                         ws[<<i + 2, c>>] =
                            IF pair(c) \in DOMAIN students[i].attendance
                            THEN students[i].attendance[pair(c)]
                            ELSE Str(<<>>)

\* Math twice with Eng between: three columns, and a record without a
\* value for Eng gets the empty string there.
C18_Witness ==
    /\ Built("attendance")
    /\ original_columns = ColumnsApart
    /\ Len(students) = 2
    /\ students[2] = RecordMathOnly(S3)
    /\ LET ws == workbook[SHEET_NAME_ATTENDANCE_SUMMARY]
       IN  /\ <<ws[<<1, 3>>], ws[<<1, 4>>], ws[<<1, 5>>]>> = <<Str(Math), Str(Eng), Str(Math)>>
           /\ ws[<<2, 5>>] = Str(<<"chi", "koku">>)
           /\ ws[<<4, 4>>] = Str(<<>>)

\* The sheet name of the builder of the last call, whether that call wrote
\* its sheet (it skips when no column is of its kind), and the number of
\* header rows and of columns of the sheet it writes.
BuiltName ==
    IF LastBuild.kind = "grade" THEN SHEET_NAME_GRADE_SUMMARY
    ELSE SHEET_NAME_ATTENDANCE_SUMMARY

BuiltWrote ==
    IF LastBuild.kind = "grade" THEN GradeSubjects # {}
    ELSE AttendancePositions # {}

BuiltHeaderRows == IF LastBuild.kind = "grade" THEN 1 ELSE 2

BuiltColumns ==
    IF LastBuild.kind = "grade" THEN 2 + Cardinality(GradeSubjects)
    ELSE LastSheetColumn

\* The values a sheet built from the current columns and records can hold:
\* the labels, the values of the records, the empty string, and None in a
\* merged cell.
CurrentValues ==
    {Str(LabelId), Str(LabelName), Str(LabelSubject), Str(<<>>), None}
    \cup {Str(original_columns[c][1]) : c \in DOMAIN original_columns}
    \cup {Str(attendance_map[k]) : k \in KEY_ATTENDANCE}
    \cup UNION {{Str(students[i].id), Str(students[i].name)}
                    \cup Range(students[i].scores)
                    \cup Range(students[i].attendance) : i \in DOMAIN students}

\* The sheets of the workbook whose title begins with a name.
SheetsNamed(name) ==
    {n \in DOMAIN workbook :
        Len(n) >= Len(name) /\ SubSeq(n, 1, Len(name)) = name}

\* C19: when a builder writes its sheet into a workbook that already holds
\* a sheet of that name, the sheet of that name afterwards has cells only
\* in the header rows and the rows of the current records, each holding a
\* label or a value of the current records, and only the merged ranges of
\* the new header; every other sheet is as it was; and at no time does the
\* workbook hold two sheets for one summary.
C19_OldSheetReplaced ==
    /\ Cardinality(SheetsNamed(SHEET_NAME_GRADE_SUMMARY)) <= 1
    /\ Cardinality(SheetsNamed(SHEET_NAME_ATTENDANCE_SUMMARY)) <= 1
    /\ (builds # <<>> /\ BuiltWrote /\ BuiltName \in DOMAIN LastBuild.before) =>
          /\ DOMAIN workbook = DOMAIN LastBuild.before
          /\ \A n \in DOMAIN workbook \ {BuiltName} :
                workbook[n] = LastBuild.before[n]
          /\ LET ws == workbook[BuiltName]
             IN  /\ DOMAIN ws =
                       (1..(BuiltHeaderRows + Len(students))) \X (1..BuiltColumns)
                 /\ Range(ws) \subseteq CurrentValues
          /\ MergedOf(merged_cells, BuiltName) =
                IF LastBuild.kind = "grade" THEN {}
                ELSE {MergedRange(1, run[1], run[2]) : run \in MaximalRuns}

\* The grade builder wrote its sheet into a workbook that held an old grade
\* sheet, larger than the new one.
C19_Witness ==
    /\ Built("grade")
    /\ GradeSubjects # {}
    /\ SHEET_NAME_GRADE_SUMMARY \in DOMAIN LastBuild.before
    /\ LastBuild.before[SHEET_NAME_GRADE_SUMMARY] = OldCells
    /\ <<6, 11>> \notin DOMAIN workbook[SHEET_NAME_GRADE_SUMMARY]
    /\ Str(<<"old">>) \notin Range(workbook[SHEET_NAME_GRADE_SUMMARY])

(***************************************************************************)
(* Properties of the ID index and the append cursor (SpecSheet).           *)
(***************************************************************************)
\* The data rows of a sheet and the value of column 1 in one of them.
DataRows(ws) == FirstDataRow..max_row(ws)
IdCell(ws, r) == CellValue(ws, r, 1)

\* update_grades_sheet is at the top of its record loop, no record written.
LoopBegins == tr_pc = "loop" /\ targets = <<>>

RecordsWith(id) == {i \in DOMAIN students : students[i].id = id}

\* C22: the index built before the record loop never gains an ID while
\* rows are appended; and after a completed call, the records of the list
\* that share an ID the sheet did not hold before the call were each written
\* to a row of their own, so that the sheet holds that ID on as many rows
\* as the list has records with it (two rows for two records).
C22_IndexBuiltOnce ==
    /\ tr_pc = "loop" =>
          \A id \in DOMAIN student_row_map : RowsOf(ws_before, id) # {}
    /\ LastCallDone =>
          LET c == calls[Len(calls)]
          IN  \A i \in DOMAIN c.targets :
                RowsOf(c.before, students[i].id) = {} =>
                    /\ \A j \in RecordsWith(students[i].id) :
                          j # i => c.targets[j] # c.targets[i]
                    /\ RowsOf(c.after, students[i].id) =
                          {c.targets[j] : j \in RecordsWith(students[i].id)}
                    /\ Cardinality(RowsOf(c.after, students[i].id)) =
                          Cardinality(RecordsWith(students[i].id))

\* Two records with the ID S9 on a sheet that held S1, S2 and S3: rows 8
\* and 9 both hold S9 afterwards.
C22_Witness ==
    /\ LastCallDone
    /\ Len(students) = 2
    /\ students[1].id = S9 /\ students[2].id = S9
    /\ calls[Len(calls)].before = ScenarioDSheet
    /\ calls[Len(calls)].targets = <<8, 9>>
    /\ RowsOf(calls[Len(calls)].after, S9) = {8, 9}

(***************************************************************************)
(* Properties of the order of the steps (SpecRun).                         *)
(***************************************************************************)
\* The steps executed so far, in the order of their execution.
Executed == [i \in DOMAIN trace |-> trace[i].step]

\* The place of a step in the order load, open, transcription, grade
\* summary, attendance summary, save.
OrderOf(step) ==
    CASE step = "load" -> 1
      [] step = "open" -> 2
      [] step = "transfer" -> 3
      [] step = "grades" -> 4
      [] step = "attendance" -> 5
      [] step = "save" -> 6

\* The steps a run is to execute: the load, the open, the tasks selected,
\* the save.
Due == {"load", "open", "save"}
        \cup {t \in {"transfer", "grades", "attendance"} : tasks[t]}

\* C23: the steps of a run are executed in the order load, open,
\* transcription, grade summary, attendance summary, save: each executed
\* step comes after every step due before it and only after the step
\* executed before it has returned; a task that is not selected is never
\* executed; and when the load fails the workbook is not opened.
C23_StepsInOrder ==
    /\ \A i \in DOMAIN trace :
          /\ trace[i].step \in Due
          /\ {st \in Due : OrderOf(st) < OrderOf(trace[i].step)}
                = {Executed[j] : j \in 1..(i - 1)}
          /\ \A j \in 1..(i - 1) :
                /\ OrderOf(Executed[j]) < OrderOf(Executed[i])
                /\ trace[j].out = Returned
    /\ (trace # <<>> /\ trace[1].out # Returned) => "open" \notin Range(Executed)
    /\ (run_pc = "returned" /\ Raises = {}) => Range(Executed) = Due

\* A run with only the grade summary selected went through load, open,
\* grade summary and save, in that order.
C23_Witness ==
    /\ run_pc = "returned"
    /\ result.ok
    /\ tasks = [transfer |-> FALSE, grades |-> TRUE, attendance |-> FALSE]
    /\ Executed = <<"load", "open", "grades", "save">>

\* The positions of the trace at which a task skipped with a warning.
Skipped == {i \in DOMAIN trace : trace[i].cause = Skip}

\* Every task of the run skipped, and the load, the open and the save met
\* no failure.
OnlySkips ==
    \A i \in DOMAIN trace :
        IF trace[i].step \in {"transfer", "grades", "attendance"}
        THEN i \in Skipped
        ELSE trace[i].cause = NoFailure

\* C24: a task that skips with a warning does not fail the run: it has
\* returned, it has written nothing, its warning was reported and the run
\* goes on with the steps after it; and a
\* run in which every selected task skipped (the other steps meeting no
\* failure) has executed every step that was due, has called save exactly
\* once and has returned success.
C24_SkipIsNotFailure ==
    /\ \A i \in Skipped :
          /\ trace[i].out = Returned
          /\ i \notin Raises
          /\ trace[i].step \notin mem_written
          /\ Msg("warning", <<trace[i].step>>) \in Range(status)
          /\ i = Len(trace) => run_pc \in Range(Steps)
    /\ (run_pc \in {"returned", "escaped"} /\ OnlySkips) =>
          /\ run_pc = "returned"
          /\ Range(Executed) = Due
          /\ Cardinality(SaveCalls) = 1
          /\ result = [returned |-> TRUE, ok |-> TRUE,
                       msg |-> SuccessMessage(files[2])]

\* All three tasks were selected, each skipped, and the run returned
\* success after the save.
C24_Witness ==
    /\ run_pc = "returned"
    /\ tasks = [transfer |-> TRUE, grades |-> TRUE, attendance |-> TRUE]
    /\ Cardinality(Skipped) = 3
    /\ Executed[Len(trace)] = "save"
    /\ result.ok
    /\ mem_written = {}

(***************************************************************************)
(* Properties of the view model (SpecView, SpecViewFair).                  *)
(***************************************************************************)
\* The worker threads that have not reached the end of _run_in_thread.
InFlight == {t \in DOMAIN threads : threads[t].pc # "done"}

AtMostOneInFlight == Cardinality(InFlight) <= 1

\* A step of start_processing that found is_running set changes nothing.
BusyClickIsNoOp ==
    (ui_pc = "idle" /\ is_running /\ clicks' # clicks)
        => UNCHANGED <<is_running, view, ui_pc, ui_args, threads, notView>>

\* A step that starts a thread finds is_running set and leaves it set.
RunningBeforeThread ==
    Len(threads') > Len(threads) => is_running /\ is_running'

\* C25: at most one run is in flight at any time; start_processing invoked
\* while is_running is True starts no thread and changes no state; and
\* is_running is True before the thread of a new run is started, whatever
\* the interleaving of the UI thread with the worker thread.
C25_OneRunInFlight ==
    /\ []AtMostOneInFlight
    /\ [][BusyClickIsNoOp /\ RunningBeforeThread]_vars

\* start_processing was invoked a second time while the worker of the first
\* run was still in flight, and returned at its guard.
C25_Witness ==
    /\ clicks = <<[running |-> FALSE, verdict |-> "ok"],
                  [running |-> TRUE, verdict |-> "busy"]>>
    /\ Len(threads) = 1
    /\ InFlight = {1}
    /\ is_running

ViewValid(v) ==
    /\ v.csv_path # "" /\ exists(v.csv_path)
    /\ v.excel_path # "" /\ exists(v.excel_path)
    /\ v.process_transfer \/ v.process_grades \/ v.process_attendance
    /\ v.process_transfer => v.term_zenki \/ v.term_tsuki

\* The same conditions on the arguments built for a thread.
ArgsValid(a) ==
    /\ a.checked[1] # "" /\ exists(a.checked[1])
    /\ a.checked[2] # "" /\ exists(a.checked[2])
    /\ a.tasks.transfer \/ a.tasks.grades \/ a.tasks.attendance
    /\ a.tasks.transfer => a.terms # <<>>

\* A step of start_processing on a view that fails a check starts nothing.
FailedCheckStartsNothing ==
    (ui_pc = "idle" /\ clicks' # clicks /\ ~ViewValid(view))
        => ui_pc' = "idle" /\ UNCHANGED <<is_running, threads>>

\* C27: start_processing sets is_running and starts a worker only when both
\* paths are non-empty and exist, a task is selected and, with
\* transcription selected, a term is selected; when a check fails,
\* is_running stays as it was and no worker is started.  So run_all_tasks is
\* never called with transcription selected and an empty list of terms.
C27_StartOnlyWhenValid ==
    /\ [](/\ ui_pc # "idle" => ArgsValid(ui_args)
          /\ \A t \in InFlight :
                /\ ArgsValid(threads[t])
                /\ threads[t].tasks.transfer => threads[t].terms # <<>>)
    /\ [][/\ FailedCheckStartsNothing
          /\ (~is_running /\ is_running') => ArgsValid(ui_args)]_vars

\* A click with transcription selected and no term was refused; a later
\* click without transcription started a worker, which called run_all_tasks
\* with an empty list of terms.
C27_Witness ==
    /\ clicks = <<[running |-> FALSE, verdict |-> "terms"],
                  [running |-> FALSE, verdict |-> "ok"]>>
    /\ Len(threads) = 1
    /\ threads[1].pc = "message"
    /\ ~threads[1].tasks.transfer
    /\ threads[1].terms = <<>>

\* The IDs of the input list.
InputIds == {students[i].id : i \in DOMAIN students}

\* The columns record i may write in its row: ID, name, the resolved columns
\* of its score entries, the resolved columns of its aggregate entries and
\* the retest-count column.
RecordCols(smap, omap, i) ==
    {1, 2}
    \cup ({ResolvedCol(smap, key) : key \in DOMAIN students[i].scores} \ {0})
    \cup ({Get(omap, key) : key \in DOMAIN students[i].summary_data} \ {0})
    \cup ({Get(omap, RETEST_COUNT)} \ {0})

\* Row r of the sheet is after the call what it was before.
RowUnchanged(c, r) ==
    \A p \in DOMAIN c.before \cup DOMAIN c.after :
        p[1] = r => /\ p \in DOMAIN c.before
                    /\ p \in DOMAIN c.after
                    /\ c.after[p] = c.before[p]

\* Every cell the call changed is in the row of a record, in a column that
\* record may write.
ChangesInRecordCols(c) ==
    \A p \in ChangedCells(c) :
        \E i \in DOMAIN c.targets :
            /\ p[1] = c.targets[i]
            /\ p[2] \in RecordCols(map_subject_columns(c.before),
                                   map_other_columns(c.before), i)

\* The frame of a call, the existing students being the rows that pass
\* the test Own on their ID cell.
FrameOf(c, Own(_)) ==
    /\ \A r \in 1..HeaderRows : RowUnchanged(c, r)
    /\ \A r \in DataRows(c.before) :
          (Own(IdCell(c.before, r))
           /\ ValueStr(IdCell(c.before, r)) \notin InputIds)
              => RowUnchanged(c, r)
    /\ ChangesInRecordCols(c)

NonBlank(v) == ~Blank(v)

\* C28: a completed call of update_grades_sheet leaves the header rows 1-4
\* and every row of an existing student (a non-blank ID cell) whose ID is
\* not in the input list as they were, and in a row it targets it changes
\* only column 1, column 2, the resolved score and aggregate columns of the
\* record and the retest-count column.
C28_FrameOfCall ==
    LastCallDone => FrameOf(calls[Len(calls)], NonBlank)

\* The same frame holds when the existing students are the rows the index
\* holds: the rows whose ID cell is not None, not empty and not the number 0.
FrameOfIndexedRows ==
    LastCallDone => FrameOf(calls[Len(calls)], Truthy)

\* A call on the sheet with the IDs 7 and 0 appended a new student on row
\* 6, the row of the student with the ID 0.
C28_Witness ==
    /\ LastCallDone
    /\ calls[Len(calls)].before = Sheet(HeaderMain, <<IntVal(7), IntVal(0)>>)
    /\ students = <<Student(S9, IntVal(80))>>
    /\ calls[Len(calls)].targets = <<6>>
    /\ CellValue(calls[Len(calls)].after, 6, 1) = Str(S9)

\* The rows the records with an indexed ID were written to.
IndexedTargets(c, row_map) ==
    {c.targets[i] : i \in {j \in DOMAIN c.targets : Get(row_map, students[j].id) # 0}}

\* The appended records of a call, the occupied rows being those whose ID
\* cell passes the test Own: none is written to an occupied row, to the
\* row of a record with an indexed ID, or to the row of another appended
\* record, and each is written past every indexed row.
AppendsOf(c, Own(_)) ==
    LET row_map == BuildStudentRowMap(c.before)
        appended == {i \in DOMAIN c.targets : Get(row_map, students[i].id) = 0}
    IN  \A i \in appended :
            /\ ~Own(CellValue(c.before, c.targets[i], 1))
            /\ c.targets[i] \notin IndexedTargets(c, row_map)
            /\ \A j \in appended : j # i => c.targets[j] # c.targets[i]
            /\ \A r \in Range(row_map) : c.targets[i] > r

\* C29: within a call, a record whose ID is not indexed is never written to
\* a row that held a non-blank ID before the call, to a row targeted by a
\* record with an indexed ID, or to a row another appended record of the
\* call claimed; the cursor is past every indexed row and never decreases,
\* advancing with every appended record.
C29_AppendsOnlyToFreeRows ==
    /\ LastCallDone => AppendsOf(calls[Len(calls)], NonBlank)
    /\ tr_pc = "loop" =>
          \A r \in Range(student_row_map) : next_new_student_row > r

\* The same holds when the occupied rows are the indexed rows: the rows
\* whose ID cell is not None, not empty and not the number 0.
AppendsPastIndexedRows ==
    /\ LastCallDone => AppendsOf(calls[Len(calls)], Truthy)
    /\ tr_pc = "loop" =>
          \A r \in Range(student_row_map) : next_new_student_row > r

\* In the loop the cursor moves by one with every appended record and not
\* otherwise.
CursorAdvances ==
    [][(tr_pc = "loop" /\ tr_pc' = "loop") =>
        /\ next_new_student_row' >= next_new_student_row
        /\ (Len(targets') > Len(targets)
            /\ targets'[Len(targets')] = next_new_student_row)
              => next_new_student_row' = next_new_student_row + 1]_vars

\* Two new students were appended to the sheet with the IDs 7 and 0: the
\* first on row 6, which held the ID 0, the second on row 7.
C29_Witness ==
    /\ LastCallDone
    /\ calls[Len(calls)].before = Sheet(HeaderMain, <<IntVal(7), IntVal(0)>>)
    /\ students = <<Student(S9, IntVal(80)), Student(S1, IntVal(80))>>
    /\ calls[Len(calls)].targets = <<6, 7>>
    /\ CellValue(calls[Len(calls)].before, 6, 1) = IntVal(0)
    /\ CellValue(calls[Len(calls)].after, 6, 1) = Str(S9)

\* The builder call n found no column of its kind among the original
\* columns: no grade column for the grade summary, no attendance column
\* for the attendance summary.
NoColumnFor(n) ==
    \A i \in DOMAIN original_columns :
        IF builds[n].kind = "grade"
        THEN original_columns[i][2] # KEY_GRADE
        ELSE original_columns[i][2] \notin DOMAIN attendance_map

\* The workbook and its merged ranges as builder call n left them.
BookAfter(n) ==
    IF n < Len(builds)
    THEN [sheets |-> builds[n + 1].before, merged |-> builds[n + 1].merged]
    ELSE TheBook

SkipMessage(kind) ==
    IF kind = "grade" THEN Msg("grade_skip", <<>>) ELSE Msg("attendance_skip", <<>>)

\* C30: a summary builder that finds no column of its kind emits its
\* warning and leaves the workbook as it found it: every sheet, a summary
\* sheet of its own name from an earlier run included, and every merged
\* range is what it was, so that is what a later save writes.
C30_SkipLeavesWorkbook ==
    \A n \in DOMAIN builds :
        NoColumnFor(n) =>
            /\ BookAfter(n).sheets = builds[n].before
            /\ BookAfter(n).merged = builds[n].merged
            /\ status[2 * n] = SkipMessage(builds[n].kind)

\* Both builders skipped on a workbook holding both summary sheets of an
\* earlier run, which are still what they were.
C30_Witness ==
    /\ Len(builds) = 2
    /\ builds[1].kind = "grade" /\ builds[2].kind = "attendance"
    /\ original_columns = ColumnsNone
    /\ students # <<>>
    /\ {SHEET_NAME_GRADE_SUMMARY, SHEET_NAME_ATTENDANCE_SUMMARY}
          \subseteq DOMAIN builds[1].before
    /\ workbook[SHEET_NAME_GRADE_SUMMARY] = OldCells
    /\ workbook[SHEET_NAME_ATTENDANCE_SUMMARY] = OldCells
    /\ merged_cells = builds[1].merged
    /\ status = <<Msg("grade_start", <<>>), Msg("grade_skip", <<>>),
                  Msg("attendance_start", <<>>), Msg("attendance_skip", <<>>)>>

====
